---- MODULE Spec2Model ----
(***************************************************************************)
(* Radropi sky-watching rig: model of the actuator positioner              *)
(* (Firmware/servo_controller.py), the detector (Firmware/detection_ai.py),*)
(* the position source (Firmware/gps_module.py), the frame source          *)
(* (Firmware/camera_controller.py) and the coordinator (Firmware/main.py). *)
(*                                                                         *)
(* Angles are whole degrees.  A confidence c is held as the integer        *)
(* 100 * c, a normalised coordinate x as the integer x * CoordScale, an    *)
(* aspect ratio r as the integer 10 * r.  A Python value that may be None  *)
(* is held as a sequence: <<>> for None, <<v>> for the value v.            *)
(***************************************************************************)
EXTENDS Integers, Sequences, FiniteSets, TLC

VARIABLES
    variant,        \* class that was constructed: "real" or "mock"
    gpio,           \* GPIO_AVAILABLE: did the import of RPi.GPIO succeed
    initialized,    \* self.initialized
    positions,      \* self.current_positions
    servo_pwm,      \* keys of self.servo_pwm: axes that own a PWM channel
    pwmFault,       \* environment: the PWM driver raises on every write
    pwmStops,       \* per axis: pwm.stop() calls on its current PWM channel
    gpioCleanups,   \* GPIO.cleanup() calls since the last GPIO.setmode
    last,           \* the last call made on the positioner and what it did
    dets,           \* detection list handed to track_objects (SpecTrack)
    phase,          \* SpecTrack: "ready" before the call, "done" after it
    pc,             \* SpecLock: per thread, its place in move_servo
    lockHolder,     \* SpecLock: owner of self.servo_lock, 0 when free
    frame,          \* SpecLock: per thread, the locals of its move_servo call
    model_loaded,         \* detector: self.model_loaded
    detection_threshold,  \* detector: self.detection_threshold
    contours,       \* detector: what cv2.findContours yields for the frame
    detLast,        \* the last call made on the detector and what it did
    current_location,   \* position source: self.current_location
    gps_running,    \* position source: self.running
    serial_conn,    \* position source: "None", or the port: "open", "unopened"
    serial_in,      \* the sentences the receiver has still to send
    gps_lock,       \* owner of self.gps_lock: "free", "reader" or "caller"
    gps_thread,     \* self.gps_thread: its place in _gps_read_loop, its locals
    gpsCall,        \* the caller's thread: the call it makes, its locals
    serialCloses,   \* close() calls on the port opened by the last start()
    committed,      \* the stored fix as each sentence left it, oldest first
    cap,            \* frame source: "None", or the device: "open", "unopened"
    cam_running,    \* frame source: self.running
    latest_frame,   \* frame source: self.latest_frame
    frame_lock,     \* owner of self.frame_lock: "free", "loop" or "caller"
    capture_thread, \* self.capture_thread: its place in _capture_loop, locals
    camCall,        \* the caller's thread: the call it makes, its locals
    capReleases,    \* release() calls on the device made by the last start()
    cam_in,         \* the frames the device has still to deliver
    running,        \* coordinator: self.running
    detection_count,    \* coordinator: self.detection_count
    sys,            \* the main thread: its place in main(), its locals
    logged,         \* the calls made on the data logger, oldest first
    history,        \* what the run of main() has done so far
    status,         \* the dict get_system_status() gave its last caller
    fleet           \* one positioner of each variant, all given the same calls

positionerVars == <<variant, gpio, initialized, positions, servo_pwm, pwmFault,
                    pwmStops, gpioCleanups, last, dets, phase, pc, lockHolder,
                    frame>>

detectorVars == <<model_loaded, detection_threshold, contours, detLast>>

gpsVars == <<current_location, gps_running, serial_conn, serial_in, gps_lock,
             gps_thread, gpsCall, serialCloses, committed>>

cameraVars == <<cap, cam_running, latest_frame, frame_lock, capture_thread,
                camCall, capReleases, cam_in>>

\* what no step of main() reads or writes
aside == <<status, fleet>>

systemVars == <<running, detection_count, sys, logged, history, aside>>

vars == <<positionerVars, detectorVars, gpsVars, cameraVars, systemVars>>

\* what a call on the positioner leaves alone
others == <<detectorVars, gpsVars, cameraVars, systemVars>>

\* what a call on the detector leaves alone
exceptDetector == <<positionerVars, gpsVars, cameraVars, systemVars>>

\* what a step of the position source leaves alone
exceptGps == <<positionerVars, detectorVars, cameraVars, systemVars>>

\* what a step of the frame source leaves alone
exceptCamera == <<positionerVars, detectorVars, gpsVars, systemVars>>

\* ------------------------------------------------------------------ bounds
MaxDetections == 2      \* longest detection list handed to track_objects
MaxApiDetections == 2   \* the same, for a track_objects among other calls
MaxCoord == 5           \* largest coordinate, in units of 1/CoordScale
MaxRelease == 2         \* shutdown() is not repeated beyond this many releases
NumThreads == 2         \* threads calling move_servo concurrently
MaxContours == 2        \* most contours found in one frame
MaxSentences == 2       \* sentences the receiver sends in one run
MaxTimeout == 2         \* longest timeout of wait_for_fix, in seconds
MaxStops == 2           \* stop() calls after one start()
MaxFrames == 2          \* frames the capture device delivers in one run
MaxFailures == 3        \* reads in a row that deliver no frame

\* ------------------------------------------------------- representation
CoordScale == 4

\* --------------------------------------------------------- configuration
AxisOrder == <<"dish_azimuth", "dish_elevation", "camera_pan", "camera_tilt">>

Axes == {AxisOrder[i] : i \in 1..Len(AxisOrder)}

servo_pins == [a \in Axes |->
    CASE a = "dish_azimuth" -> 18
      [] a = "dish_elevation" -> 19
      [] a = "camera_pan" -> 20
      [] a = "camera_tilt" -> 21]

limits == [a \in Axes |->
    CASE a = "dish_azimuth" -> <<0, 180>>
      [] a = "dish_elevation" -> <<0, 90>>
      [] a = "camera_pan" -> <<0, 180>>
      [] a = "camera_tilt" -> <<30, 150>>]

home_positions == [a \in Axes |->
    CASE a = "dish_azimuth" -> 90
      [] a = "dish_elevation" -> 45
      [] a = "camera_pan" -> 90
      [] a = "camera_tilt" -> 90]

step_size == 2

\* 0.8, in hundredths
HighConfidence == 80

\* ------------------------------------------------------------ arithmetic
Min(a, b) == IF a < b THEN a ELSE b

Max(a, b) == IF a > b THEN a ELSE b

Abs(a) == IF a < 0 THEN 0 - a ELSE a

\* Clamp with the clamping left out: the angle is written as requested
Unclamped(axis, angle) == angle

\* max(min_angle, min(max_angle, angle))
Clamp(axis, angle) == Max(limits[axis][1], Min(limits[axis][2], angle))

\* The environment of one call: which class, whether GPIO was imported,
\* whether initialize() has succeeded, whether the PWM driver raises.
Ctx(v, g, i, f) == [variant |-> v, gpio |-> g, initialized |-> i, fault |-> f]

\* MockServoController.__init__ sets neither servo_pins nor limits.
HasServoPins(c) == c.variant = "real"

\* _move_servo_to_position: the stored angles after one write.
MoveServoToPosition(c, pos, axis, angle) ==
    IF c.variant = "mock"
    THEN [pos EXCEPT ![axis] = angle]
    ELSE IF ~c.initialized \/ ~c.gpio
         THEN pos
         ELSE IF c.fault
              THEN pos
              ELSE [pos EXCEPT ![axis] = Clamp(axis, angle)]

\* int(abs(target_angle - current_angle) / step_size)
StepCount(current_angle, target_angle) ==
    Abs(target_angle - current_angle) \div step_size

Direction(current_angle, target_angle) ==
    IF target_angle > current_angle THEN 1 ELSE 0 - 1

\* NewAngle with increments of twice the step size
NewAngleWide(current_angle, target_angle, i) ==
    current_angle
        + (Direction(current_angle, target_angle) * (2 * step_size) * (i + 1))

\* new_angle of iteration i of the loop of _smooth_move; current_angle is
\* read once, before the loop
NewAngle(current_angle, target_angle, i) ==
    current_angle
        + (Direction(current_angle, target_angle) * step_size * (i + 1))

\* for i in range(steps): _move_servo_to_position(servo_name, new_angle).
\* Every write of the loop stores its own angle whatever was stored before,
\* or stores nothing, under conditions that do not change during the call:
\* what the loop leaves is what its last iteration leaves.
SmoothLoop(c, pos, axis, current_angle, target_angle, steps) ==
    IF steps = 0
    THEN pos
    ELSE MoveServoToPosition(c, pos, axis,
             NewAngle(current_angle, target_angle, steps - 1))

SmoothMove(c, pos, axis, target_angle) ==
    LET current_angle == pos[axis]
        looped == SmoothLoop(c, pos, axis, current_angle, target_angle,
                      StepCount(current_angle, target_angle))
    IN  MoveServoToPosition(c, looped, axis, target_angle)

\* One call of move_servo.  st = [pos, moves]; the call is appended to moves
\* with its outcome: "True", "False", or "AttributeError" when it raises.
Call(name, angle, res) == [axis |-> name, angle |-> angle, res |-> res]

MoveServo(c, st, name, angle, smooth) ==
    IF ~HasServoPins(c)
    THEN [res |-> "AttributeError", pos |-> st.pos,
          moves |-> Append(st.moves, Call(name, angle, "AttributeError"))]
    ELSE IF name \notin DOMAIN servo_pins
         THEN [res |-> "False", pos |-> st.pos,
               moves |-> Append(st.moves, Call(name, angle, "False"))]
         ELSE [res |-> "True",
               pos |-> IF smooth
                       THEN SmoothMove(c, st.pos, name, angle)
                       ELSE MoveServoToPosition(c, st.pos, name, angle),
               moves |-> Append(st.moves, Call(name, angle, "True"))]

\* Two move_servo calls in a row inside one try block: an exception of the
\* first skips the second and the block returns False.
MovePair(c, st, name1, angle1, name2, angle2) ==
    LET r1 == MoveServo(c, st, name1, angle1, TRUE)
    IN  IF r1.res = "AttributeError"
        THEN [res |-> "False", pos |-> r1.pos, moves |-> r1.moves]
        ELSE LET r2 == MoveServo(c, r1, name2, angle2, TRUE)
             IN  IF r2.res = "AttributeError"
                 THEN [res |-> "False", pos |-> r2.pos, moves |-> r2.moves]
                 ELSE [res |-> IF r1.res = "True" /\ r2.res = "True"
                               THEN "True" ELSE "False",
                       pos |-> r2.pos, moves |-> r2.moves]

\* ServoAzimuth without the scaling: the azimuth goes to the axis as it is
ServoAzimuthUnscaled(azimuth) == azimuth

\* (azimuth % 360) * 180 / 360
ServoAzimuth(azimuth) == ((azimuth % 360) * 180) \div 360

MoveDishToCoordinates(c, st, azimuth, elevation) ==
    MovePair(c, st, "dish_azimuth", ServoAzimuth(azimuth),
                    "dish_elevation", elevation)

MoveCameraToCoordinates(c, st, pan, tilt) ==
    MovePair(c, st, "camera_pan", pan, "camera_tilt", tilt)

\* home_all_servos from the i-th axis on: a move that returns False clears
\* success and the loop goes on; a move that raises leaves the loop and the
\* except clause returns False.
RECURSIVE HomeLoop(_, _, _, _)
HomeLoop(c, st, success, i) ==
    IF i > Len(AxisOrder)
    THEN [res |-> IF success THEN "True" ELSE "False",
          pos |-> st.pos, moves |-> st.moves]
    ELSE LET r == MoveServo(c, st, AxisOrder[i],
                      home_positions[AxisOrder[i]], TRUE)
         IN  IF r.res = "AttributeError"
             THEN [res |-> "False", pos |-> r.pos, moves |-> r.moves]
             ELSE HomeLoop(c, r, success /\ r.res = "True", i + 1)

HomeAllServos(c, pos) ==
    HomeLoop(c, [pos |-> pos, moves |-> <<>>], TRUE, 1)

\* max(detections, key=confidence): the first element whose key is not
\* exceeded by any other; a later element replaces the best only if greater.
\* Exceeds with >= for >: a later element of equal confidence replaces the best
ExceedsOrTies(candidate, best) == candidate.confidence >= best.confidence

Exceeds(candidate, best) == candidate.confidence > best.confidence

RECURSIVE MaxFrom(_, _, _)
MaxFrom(detections, best, i) ==
    IF i > Len(detections)
    THEN best
    ELSE MaxFrom(detections,
             IF Exceeds(detections[i], best) THEN detections[i] ELSE best,
             i + 1)

PrimaryDetection(detections) == MaxFrom(detections, detections[1], 2)

\* pan_angle = x * 180, tilt_angle = 30 + (y * 120)
PanAngle(x) == (x * 180) \div CoordScale

TiltAngle(y) == 30 + ((y * 120) \div CoordScale)

\* dish_azimuth = pan_angle * 2, dish_elevation = min(90, tilt_angle - 30)
DishAzimuth(pan_angle) == pan_angle * 2

DishElevation(tilt_angle) == Min(90, tilt_angle - 30)

\* IsSignificant with >= for >: the dish follows from 0.8 on
IsSignificantFrom(detection) == detection.confidence >= HighConfidence

IsSignificant(detection) == detection.confidence > HighConfidence

NoCall == <<>>

\* track_objects on a non-empty list: the stored angles afterwards, the
\* move_servo calls made (moves) and the arguments of the camera and dish
\* positioning calls.
Tracked(c, pos, detections) ==
    LET primary == PrimaryDetection(detections)
        pan_angle == PanAngle(primary.coordinates[1])
        tilt_angle == TiltAngle(primary.coordinates[2])
        camera == MoveCameraToCoordinates(c, [pos |-> pos, moves |-> <<>>],
                      pan_angle, tilt_angle)
    IN  IF IsSignificant(primary)
        THEN LET dish_azimuth == DishAzimuth(pan_angle)
                 dish_elevation == DishElevation(tilt_angle)
                 dish == MoveDishToCoordinates(c, camera,
                             dish_azimuth, dish_elevation)
             IN  [pos |-> dish.pos, moves |-> dish.moves,
                  cam |-> <<pan_angle, tilt_angle>>,
                  dish |-> <<dish_azimuth, dish_elevation>>]
        ELSE [pos |-> camera.pos, moves |-> camera.moves,
              cam |-> <<pan_angle, tilt_angle>>, dish |-> NoCall]

\* TrackObjects with an empty list sending the axes home
TrackObjectsHoming(c, pos, detections) ==
    IF detections = <<>>
    THEN LET h == HomeAllServos(c, pos)
         IN  [pos |-> h.pos, moves |-> h.moves, cam |-> NoCall,
              dish |-> NoCall]
    ELSE Tracked(c, pos, detections)

TrackObjects(c, pos, detections) ==
    IF detections = <<>>
    THEN [pos |-> pos, moves |-> <<>>, cam |-> NoCall, dish |-> NoCall]
    ELSE Tracked(c, pos, detections)

\* ------------------------------------------------------------ input sets
Confidences == {75, 80, 85}

CoordValues == {0, 2, MaxCoord}

Detections == [confidence : Confidences,
               coordinates : CoordValues \X CoordValues]

\* all lists of exactly n elements of D
RECURSIVE ListsOfLen(_, _)
ListsOfLen(D, n) ==
    IF n = 0
    THEN {<<>>}
    ELSE {Append(l, d) : l \in ListsOfLen(D, n - 1), d \in D}

DetLists == UNION {ListsOfLen(Detections, n) : n \in 0..MaxDetections}

\* the lists handed to track_objects between other calls of the API
ApiDetections == {d \in Detections :
                     /\ d.confidence \in {80, 85}
                     /\ d.coordinates \in {<<2, 2>>, <<MaxCoord, 0>>}}

ApiDetLists == UNION {ListsOfLen(ApiDetections, n) : n \in 0..MaxApiDetections}

MoveAngles == {0 - 20, 93, 200}

UnknownAxis == "antenna"

AxisNames == Axes \cup {UnknownAxis}

InitFailures == {0, 3}

\* ------------------------------------------- the detector as constructed
None == <<>>

Some(v) == <<v>>

NoDetLast == [op |-> "none", arg |-> None, res |-> <<>>, raised |-> "none"]

DetectorCreated ==
    /\ model_loaded = FALSE
    /\ detection_threshold = 50
    /\ detLast = NoDetLast

\* ------------------------------------ the position source as constructed
NoFix == [latitude |-> None, longitude |-> None, altitude |-> None,
          timestamp |-> None, satellites |-> 0, fix_quality |-> 0,
          hdop |-> None]

\* a parsed sentence; a field that is empty (or zero) in the sentence is 0,
\* which is what Python's truth test takes for false
Message(kind, latitude, longitude, altitude, num_sats, gps_qual, hdop) ==
    [kind |-> kind, latitude |-> latitude, longitude |-> longitude,
     altitude |-> altitude, num_sats |-> num_sats, gps_qual |-> gps_qual,
     hdop |-> hdop]

NoMessage == Message("none", 0, 0, 0, 0, 0, 0)

\* the reading thread before start(): the attribute gps_thread is not set
NoThread == [pc |-> "unset", msg |-> NoMessage, i |-> 0, n |-> 0]

NoSnapshot == [alias |-> FALSE, val |-> NoFix]

NoCallGps == [op |-> "none", pc |-> "idle", snapshot |-> NoSnapshot,
              mutated |-> FALSE, elapsed |-> 0, timeout |-> 0,
              res |-> "None", stops |-> 0]

GpsCreated ==
    /\ current_location = NoFix
    /\ gps_running = FALSE
    /\ serial_conn = "None"
    /\ gps_lock = "free"
    /\ gps_thread = NoThread
    /\ gpsCall = NoCallGps
    /\ serialCloses = 0
    /\ committed = <<[kind |-> "none", fix |-> NoFix]>>

\* -------------------------------------- the frame source as constructed
\* the capture thread before start(): the attribute is not set; n counts the
\* frames read so far, and the n-th frame read is told by its number n;
\* fails counts the reads in a row that came back without a frame, slept is
\* the sleep the loop took after its last read, in tenths of a second
NoCapture == [pc |-> "unset", frame |-> 0, n |-> 0, fails |-> 0, slept |-> 0]

NoImage == [alias |-> FALSE, val |-> None]

NoCallCam == [op |-> "none", pc |-> "idle", seen |-> None, image |-> NoImage,
              mutated |-> FALSE, res |-> "None", stops |-> 0]

CameraCreated ==
    /\ cap = "None"
    /\ cam_running = FALSE
    /\ latest_frame = None
    /\ frame_lock = "free"
    /\ capture_thread = NoCapture
    /\ camCall = NoCallCam
    /\ capReleases = 0

\* ---------------------------------------- the coordinator as constructed
Kinds == {"meteor", "asteroid", "non_meteor"}

\* the main thread after RadropiSystem(): about to call start_system(); ret
\* is the place the shutdown() in progress was called from, event the dict
\* detection_data of the last process_detection() as that call left it
NoSys == [pc |-> "start", ret |-> "none", frame |-> None,
          detections |-> <<>>, i |-> 0, event |-> None]

\* what one pass of the loop has done: whether it got a frame, its detection
\* passes, the detections it processed, the lists it handed to track_objects
NoPass == [fetched |-> FALSE, analyzed |-> 0, processed |-> 0,
           tracked |-> <<>>]

\* started: the startup steps made, with their outcome; iterations: the
\* passes of the loop begun; erred: line 86 has caught an exception;
\* shutdowns: the shutdown() calls made, with the cleanup steps each has
\* made and how it ended
NoHistory == [started |-> <<>>, iterations |-> 0, pass |-> NoPass,
              erred |-> FALSE, interrupted |-> FALSE, shutdowns |-> <<>>]

\* get_system_status() has not been called
NoStatus == [taken |-> FALSE, mutated |-> "none"]

\* the positioners of the fleet as constructed
Variants == {"gpio", "no_gpio", "mock"}

NoFleet == [v \in Variants |->
               [initialized |-> FALSE, pos |-> home_positions,
                res |-> "None"]]

SystemCreated ==
    /\ status = NoStatus
    /\ fleet = NoFleet
    /\ running = FALSE
    /\ detection_count = [k \in Kinds |-> 0]
    /\ sys = NoSys
    /\ logged = <<>>
    /\ history = NoHistory

\* the position source, the frame source and the coordinator, constructed
\* and not used
SensorsCreated ==
    /\ GpsCreated
    /\ serial_in = <<>>
    /\ CameraCreated
    /\ cam_in = 0
    /\ SystemCreated

\* the components other than the positioner, constructed and not used
OthersCreated ==
    /\ DetectorCreated
    /\ contours = <<>>
    /\ SensorsCreated

\* --------------------------------------------------- the positioner's API
Here == Ctx(variant, gpio, initialized, pwmFault)

NoLast == [op |-> "none", res |-> "None", cam |-> NoCall, dish |-> NoCall,
           moves |-> <<>>]

Did(op, res, cam, dish, moves) ==
    [op |-> op, res |-> res, cam |-> cam, dish |-> dish, moves |-> moves]

\* initialize() on a GPIO board: the axes before failAt get a new PWM channel
\* and a write of their current angle; failAt = 0 is a run without exception.
RECURSIVE InitLoop(_, _, _, _)
InitLoop(c, pos, upto, i) ==
    IF i > upto
    THEN pos
    ELSE InitLoop(c,
             MoveServoToPosition(c, pos, AxisOrder[i], pos[AxisOrder[i]]),
             upto, i + 1)

Created(failAt) ==
    IF failAt = 0 THEN Axes ELSE {AxisOrder[i] : i \in 1..(failAt - 1)}

Initialize ==
    \E failAt \in InitFailures :
        /\ phase = "api"
        /\ IF variant = "mock" \/ ~gpio
           THEN /\ failAt = 0
                /\ initialized' = TRUE
                /\ last' = Did("initialize", "True", NoCall, NoCall, <<>>)
                /\ UNCHANGED <<positions, servo_pwm, pwmStops, gpioCleanups>>
           ELSE /\ servo_pwm' = servo_pwm \cup Created(failAt)
                /\ pwmStops' = [a \in Axes |->
                       IF a \in Created(failAt) THEN 0 ELSE pwmStops[a]]
                /\ gpioCleanups' = 0
                /\ positions' = InitLoop(Here, positions,
                       Cardinality(Created(failAt)), 1)
                /\ initialized' = IF failAt = 0 THEN TRUE ELSE initialized
                /\ last' = Did("initialize",
                       IF failAt = 0 THEN "True" ELSE "False",
                       NoCall, NoCall, <<>>)
        /\ UNCHANGED <<variant, gpio, pwmFault, dets, phase, pc, lockHolder,
                       frame, others>>

MoveServoCall ==
    \E name \in AxisNames, angle \in MoveAngles, smooth \in BOOLEAN :
        LET r == MoveServo(Here, [pos |-> positions, moves |-> <<>>],
                     name, angle, smooth)
        IN  /\ phase = "api"
            /\ positions' = r.pos
            /\ last' = Did("move_servo", r.res, NoCall, NoCall, r.moves)
            /\ UNCHANGED <<variant, gpio, initialized, servo_pwm, pwmFault,
                           pwmStops, gpioCleanups, dets, phase, pc,
                           lockHolder, frame, others>>

TrackObjectsCall ==
    \E detections \in ApiDetLists :
        LET r == TrackObjects(Here, positions, detections)
        IN  /\ phase = "api"
            /\ positions' = r.pos
            /\ last' = Did("track_objects", "None", r.cam, r.dish, r.moves)
            /\ UNCHANGED <<variant, gpio, initialized, servo_pwm, pwmFault,
                           pwmStops, gpioCleanups, dets, phase, pc,
                           lockHolder, frame, others>>

HomeAllServosCall ==
    LET r == HomeAllServos(Here, positions)
    IN  /\ phase = "api"
        /\ positions' = r.pos
        /\ last' = Did("home_all_servos", r.res, NoCall, NoCall, r.moves)
        /\ UNCHANGED <<variant, gpio, initialized, servo_pwm, pwmFault,
                       pwmStops, gpioCleanups, dets, phase, pc, lockHolder,
                       frame, others>>

\* pwm.stop() on every channel of servo_pwm
StopAll(stops, channels) ==
    [a \in Axes |-> IF a \in channels THEN stops[a] + 1 ELSE stops[a]]

Shutdown ==
    /\ phase = "api"
    /\ \A a \in Axes : pwmStops[a] < MaxRelease
    /\ gpioCleanups < MaxRelease
    /\ IF variant = "mock"
       THEN /\ last' = Did("shutdown", "None", NoCall, NoCall, <<>>)
            /\ UNCHANGED <<positions, pwmStops, gpioCleanups>>
       ELSE LET r == HomeAllServos(Here, positions)
            IN  /\ positions' = r.pos
                /\ pwmStops' = StopAll(pwmStops, servo_pwm)
                /\ gpioCleanups' =
                       IF gpio THEN gpioCleanups + 1 ELSE gpioCleanups
                /\ last' = Did("shutdown", "None", NoCall, NoCall, r.moves)
    /\ initialized' = FALSE
    /\ UNCHANGED <<variant, gpio, servo_pwm, pwmFault, dets, phase, pc,
                   lockHolder, frame, others>>

Threads == 1..NumThreads

Idle == [t \in Threads |-> "idle"]

\* the locals of move_servo and _smooth_move, and the value returned
NoFrame == [axis |-> "", target |-> 0, smooth |-> FALSE, current_angle |-> 0,
            steps |-> 0, i |-> 0, res |-> "None"]

NoFrames == [t \in Threads |-> NoFrame]

Init ==
    /\ variant \in {"real", "mock"}
    /\ gpio \in BOOLEAN
    /\ pwmFault \in BOOLEAN
    /\ initialized = FALSE
    /\ positions = home_positions
    /\ servo_pwm = {}
    /\ pwmStops = [a \in Axes |-> 0]
    /\ gpioCleanups = 0
    /\ last = NoLast
    /\ dets = <<>>
    /\ phase = "api"
    /\ pc = Idle
    /\ lockHolder = 0
    /\ frame = NoFrames
    /\ OthersCreated

Next ==
    \/ Initialize
    \/ MoveServoCall
    \/ TrackObjectsCall
    \/ HomeAllServosCall
    \/ Shutdown

Spec == Init /\ [][Next]_vars

\* ------------------------------------------- one track_objects call
\* The positioner as track_objects can find it: either class, before or
\* after initialize(), with or without GPIO, with a PWM driver that works or
\* raises.
TrackContexts ==
    {c \in [variant : {"real", "mock"}, gpio : BOOLEAN,
            initialized : BOOLEAN, fault : BOOLEAN] :
        /\ c.variant = "mock" => ~c.gpio
        /\ c.fault => (c.variant = "real" /\ c.gpio /\ c.initialized)}

AtMinimum == [a \in Axes |-> limits[a][1]]

StartPositions == {home_positions, AtMinimum}

InitTrack ==
    /\ dets \in DetLists
    /\ \E c \in TrackContexts :
        /\ variant = c.variant
        /\ gpio = c.gpio
        /\ initialized = c.initialized
        /\ pwmFault = c.fault
    /\ positions \in StartPositions
    /\ servo_pwm = IF variant = "real" /\ gpio /\ initialized
                   THEN Axes ELSE {}
    /\ pwmStops = [a \in Axes |-> 0]
    /\ gpioCleanups = 0
    /\ last = NoLast
    /\ phase = "ready"
    /\ pc = Idle
    /\ lockHolder = 0
    /\ frame = NoFrames
    /\ OthersCreated

TrackStep ==
    LET r == TrackObjects(Here, positions, dets)
    IN  /\ phase = "ready"
        /\ phase' = "done"
        /\ positions' = r.pos
        /\ last' = Did("track_objects", "None", r.cam, r.dish, r.moves)
        /\ UNCHANGED <<variant, gpio, initialized, servo_pwm, pwmFault,
                       pwmStops, gpioCleanups, dets, pc, lockHolder, frame,
                       others>>

SpecTrack == InitTrack /\ [][TrackStep]_vars

\* ------------------------------------ move_servo, one statement at a time
\* targets of the concurrent moves, as offsets from the axis's home angle
LockOffsets == {4}

InitLock ==
    /\ \E c \in TrackContexts :
        /\ variant = c.variant
        /\ gpio = c.gpio
        /\ initialized = c.initialized
        /\ pwmFault = c.fault
    /\ positions = home_positions
    /\ servo_pwm = IF variant = "real" /\ gpio /\ initialized
                   THEN Axes ELSE {}
    /\ pwmStops = [a \in Axes |-> 0]
    /\ gpioCleanups = 0
    /\ last = NoLast
    /\ dets = <<>>
    /\ phase = "threads"
    /\ pc = Idle
    /\ lockHolder = 0
    /\ frame = NoFrames
    /\ OthersCreated

LockUnchanged ==
    UNCHANGED <<variant, gpio, initialized, servo_pwm, pwmFault, pwmStops,
                gpioCleanups, last, dets, phase, others>>

\* LockAvailable with the test left out: the move does not wait for the lock
LockIgnored(holder) == TRUE

\* with self.servo_lock: entered only while no thread holds the lock
LockAvailable(holder) == holder = 0

\* move_servo is called: the name is looked up before the lock is asked for
BeginMove(t) ==
    \E name \in AxisNames, offset \in LockOffsets, smooth \in BOOLEAN :
        /\ phase = "threads"
        /\ pc[t] = "idle"
        /\ IF ~HasServoPins(Here)
           THEN /\ frame' = [frame EXCEPT ![t] =
                       [NoFrame EXCEPT !.res = "AttributeError"]]
                /\ UNCHANGED pc
           ELSE IF name \notin DOMAIN servo_pins
                THEN /\ frame' = [frame EXCEPT ![t] =
                            [NoFrame EXCEPT !.res = "False"]]
                     /\ UNCHANGED pc
                ELSE /\ frame' = [frame EXCEPT ![t] =
                            [NoFrame EXCEPT !.axis = name,
                                !.target = home_positions[name] + offset,
                                !.smooth = smooth]]
                     /\ pc' = [pc EXCEPT ![t] = "lock"]
        /\ UNCHANGED <<positions, lockHolder>>
        /\ LockUnchanged

\* the lock is taken; _smooth_move reads the current angle and counts steps
Acquire(t) ==
    /\ pc[t] = "lock"
    /\ LockAvailable(lockHolder)
    /\ lockHolder' = t
    /\ IF frame[t].smooth
       THEN LET current_angle == positions[frame[t].axis]
                steps == StepCount(current_angle, frame[t].target)
            IN  /\ frame' = [frame EXCEPT ![t].current_angle = current_angle,
                                          ![t].steps = steps, ![t].i = 0]
                /\ pc' = [pc EXCEPT ![t] =
                             IF steps > 0 THEN "step" ELSE "final"]
       ELSE /\ pc' = [pc EXCEPT ![t] = "final"]
            /\ UNCHANGED frame
    /\ UNCHANGED positions
    /\ LockUnchanged

\* one iteration of the loop of _smooth_move
SmoothStep(t) ==
    /\ pc[t] = "step"
    /\ positions' = MoveServoToPosition(Here, positions, frame[t].axis,
           NewAngle(frame[t].current_angle, frame[t].target, frame[t].i))
    /\ frame' = [frame EXCEPT ![t].i = frame[t].i + 1]
    /\ pc' = [pc EXCEPT ![t] =
                 IF frame[t].i + 1 < frame[t].steps THEN "step" ELSE "final"]
    /\ UNCHANGED lockHolder
    /\ LockUnchanged

\* the write of the target itself: the last statement of _smooth_move, or
\* the only write of a move that is not smooth
FinalWrite(t) ==
    /\ pc[t] = "final"
    /\ positions' = MoveServoToPosition(Here, positions, frame[t].axis,
                        frame[t].target)
    /\ pc' = [pc EXCEPT ![t] = "unlock"]
    /\ UNCHANGED <<frame, lockHolder>>
    /\ LockUnchanged

\* the with block is left and move_servo returns True
Release(t) ==
    /\ pc[t] = "unlock"
    /\ lockHolder' = 0
    /\ frame' = [frame EXCEPT ![t] = [NoFrame EXCEPT !.res = "True"]]
    /\ pc' = [pc EXCEPT ![t] = "idle"]
    /\ UNCHANGED positions
    /\ LockUnchanged

NextLock ==
    \E t \in Threads :
        \/ BeginMove(t)
        \/ Acquire(t)
        \/ SmoothStep(t)
        \/ FinalWrite(t)
        \/ Release(t)

SpecLock == InitLock /\ [][NextLock]_vars

\* --------------------------------------------------------------- C1
WithinLimits(pos) ==
    \A a \in Axes : limits[a][1] <= pos[a] /\ pos[a] <= limits[a][2]

\* C1: whatever calls were made, with whatever targets, the stored angle of
\* every axis lies within the limits declared for that axis.
C1_AnglesWithinLimits == WithinLimits(positions)

\* a move to 200 degrees has left camera-pan at its upper limit
C1_Witness ==
    /\ last.op = "move_servo" /\ last.res = "True"
    /\ last.moves[1].axis = "camera_pan" /\ last.moves[1].angle = 200
    /\ positions["camera_pan"] = 180

\* ------------------------------------------- C7, C9, C10: failure paths
\* C7: a move_servo call with a name that is none of the four axes returns
\* False and leaves every stored angle as it was, on either class.
C7_UnknownAxisRejected ==
    [][(last'.op = "move_servo"
            /\ last'.moves[1].axis \notin Axes) =>
           (last'.res = "False" /\ positions' = positions)]_vars

\* C9: home_all() calls for a move of each of the four axes to its home
\* angle, also after a move of an earlier axis has failed, and returns True
\* exactly when every one of these moves returned True.
C9_HomeAllAttemptsEveryAxis ==
    (last.op = "home_all_servos") =>
        /\ Len(last.moves) = Len(AxisOrder)
        /\ \A k \in 1..Len(last.moves) :
               /\ last.moves[k].axis = AxisOrder[k]
               /\ last.moves[k].angle = home_positions[AxisOrder[k]]
        /\ (last.res = "True") <=>
               (\A k \in 1..Len(last.moves) : last.moves[k].res = "True")

\* C10: over any number of shutdown() calls each PWM channel is stopped at
\* most once and GPIO is cleaned up at most once.
C10_ReleasedAtMostOnce ==
    /\ \A a \in Axes : pwmStops[a] <= 1
    /\ gpioCleanups <= 1


\* ------------------------------------------------- C2 .. C6: tracking
Operational == variant = "real" /\ gpio /\ initialized /\ ~pwmFault

TrackCall == phase = "ready" /\ phase' = "done"

\* the classification track() is to follow: the first one of the list that
\* no other one exceeds in confidence
Winner(detections) ==
    detections[CHOOSE i \in 1..Len(detections) :
        /\ \A j \in 1..Len(detections) :
               detections[j].confidence <= detections[i].confidence
        /\ \A j \in 1..(i - 1) :
               detections[j].confidence < detections[i].confidence]

MovedAxes(moves) == {moves[k].axis : k \in 1..Len(moves)}

DishAxes == {"dish_azimuth", "dish_elevation"}

CameraAxes == {"camera_pan", "camera_tilt"}

\* C2: track() with an empty list makes no move_servo call and leaves the
\* stored angle of every axis as it was.
C2_EmptyTrackChangesNothing ==
    [][(TrackCall /\ dets = <<>>) =>
           (positions' = positions /\ last'.moves = <<>>)]_vars

C2_Witness ==
    /\ phase = "done" /\ dets = <<>> /\ last.op = "track_objects"
    /\ Operational /\ positions = AtMinimum

\* C3: for a non-empty list, the camera is sent to the angles derived from
\* the coordinates of the classification of maximum confidence, the first
\* of the list among equals; an operational positioner then stores them
\* (clamped) on camera-pan and camera-tilt.
C3_TracksFirstMaximum ==
    (phase = "done" /\ dets # <<>>) =>
        LET w == Winner(dets)
            pan == (w.coordinates[1] * 180) \div CoordScale
            tilt == 30 + ((w.coordinates[2] * 120) \div CoordScale)
        IN  /\ last.cam = <<pan, tilt>>
            /\ Operational =>
                   /\ positions["camera_pan"] = Max(0, Min(180, pan))
                   /\ positions["camera_tilt"] = Max(30, Min(150, tilt))

\* a tie at the maximum whose two classifications point to different angles
C3_Witness ==
    /\ phase = "done" /\ Len(dets) = 2 /\ Operational
    /\ dets[1].confidence = dets[2].confidence
    /\ dets[1].coordinates = <<0, 2>>
    /\ dets[2].coordinates = <<2, 0>>
    /\ positions["camera_pan"] = 0
    /\ positions["camera_tilt"] = 90

\* C4: after initialize() and track() on a winner with normalised centre
\* (x, y), the stored camera-pan is x * 180 and the stored camera-tilt is
\* 30 + y * 120.
C4_StoredCameraAngles ==
    (phase = "done" /\ dets # <<>> /\ initialized) =>
        LET w == Winner(dets)
        IN  (w.coordinates[1] <= CoordScale /\ w.coordinates[2] <= CoordScale)
            => /\ positions["camera_pan"]
                      = (w.coordinates[1] * 180) \div CoordScale
               /\ positions["camera_tilt"]
                      = 30 + ((w.coordinates[2] * 120) \div CoordScale)

\* C5: track() calls for a move of the dish axes exactly when the winner's
\* confidence is above 0.8; at 0.8 or below it calls for a move of the
\* camera axes and the stored dish angles stay as they were.
C5_DishOnlyAboveThreshold ==
    [][(TrackCall /\ dets # <<>>) =>
           LET w == Winner(dets)
           IN  /\ (last'.dish # NoCall) <=> (w.confidence > 80)
               /\ (MovedAxes(last'.moves) \cap DishAxes # {})
                      <=> (w.confidence > 80)
               /\ (w.confidence <= 80) =>
                      /\ last'.cam # NoCall
                      /\ MovedAxes(last'.moves) \cap CameraAxes # {}
                      /\ \A a \in DishAxes : positions'[a] = positions[a]]_vars

\* a winner at exactly 0.8: the camera has moved, the dish has not
C5_Witness ==
    /\ phase = "done" /\ dets # <<>> /\ Operational
    /\ Winner(dets).confidence = 80
    /\ positions["camera_pan"] = 0
    /\ positions["dish_azimuth"] = 90
    /\ last.dish = NoCall

\* C6 as stated: for a winner above 0.8 an operational positioner stores
\* camera-pan * 2, limited to [0,360] and clamped to [0,180], on
\* dish-azimuth and min(90, camera-tilt - 30) on dish-elevation.
C6_DishAzimuthDoubled ==
    (phase = "done" /\ dets # <<>> /\ Operational) =>
        LET w == Winner(dets)
            pan == (w.coordinates[1] * 180) \div CoordScale
            tilt == 30 + ((w.coordinates[2] * 120) \div CoordScale)
        IN  (w.confidence > 80) =>
                /\ positions["dish_azimuth"]
                       = Max(0, Min(180, Max(0, Min(360, pan * 2))))
                /\ positions["dish_elevation"]
                       = Max(0, Min(90, Min(90, tilt - 30)))

\* C6 amended: for a winner above 0.8, track() asks for the dish at azimuth
\* camera-pan * 2 and elevation min(90, camera-tilt - 30); the azimuth axis
\* is driven to half the azimuth taken modulo 360, and an operational
\* positioner stores that angle and the elevation, each clamped to its range.
C6_DishAzimuthHalved ==
    (phase = "done" /\ dets # <<>>) =>
        LET w == Winner(dets)
            pan == (w.coordinates[1] * 180) \div CoordScale
            tilt == 30 + ((w.coordinates[2] * 120) \div CoordScale)
            azimuth == pan * 2
            elevation == Min(90, tilt - 30)
            servo == (azimuth % 360) \div 2
        IN  (w.confidence > 80) =>
                /\ last.dish = <<azimuth, elevation>>
                /\ \E k \in 1..Len(last.moves) :
                       /\ last.moves[k].axis = "dish_azimuth"
                       /\ last.moves[k].angle = servo
                /\ Operational =>
                       /\ positions["dish_azimuth"] = Max(0, Min(180, servo))
                       /\ positions["dish_elevation"]
                              = Max(0, Min(90, elevation))

\* confidence 0.85, centre (0.5, 0.5): azimuth 180 asked, 90 stored
C6_Witness ==
    /\ phase = "done" /\ Len(dets) = 1 /\ Operational
    /\ dets[1].confidence = 85
    /\ dets[1].coordinates = <<2, 2>>
    /\ last.dish = <<180, 60>>
    /\ positions["dish_azimuth"] = 90
    /\ positions["dish_elevation"] = 60

\* ----------------------------------------------------- C8: one move
InFlight == {t \in Threads : pc[t] \in {"step", "final", "unlock"}}

\* C8: at most one move_servo call is between taking the lock and giving it
\* back, whatever its axis and however many steps it takes, and that call
\* is the one holding the lock.
C8_OneMoveInFlight ==
    /\ Cardinality(InFlight) <= 1
    /\ \A t \in InFlight : lockHolder = t

\* thread 1 is half way through a smooth move while thread 2 waits to move
\* another axis
C8_Witness ==
    /\ Operational
    /\ pc[1] = "step" /\ frame[1].i = 1
    /\ positions[frame[1].axis] = home_positions[frame[1].axis] + step_size
    /\ pc[2] = "lock"
    /\ frame[2].axis # frame[1].axis

\* ============================================================ the detector
\* A contour is told by what the detector measures on it: its area, the
\* aspect ratio of its bounding box, the mean brightness of the frame inside
\* that box, and whether one of the cv2 / numpy calls made on it raises:
\* "contour" in detect_moving_objects, "classify" in classify_object.
Faults == {"none", "classify", "contour"}

Contours == [area : {50, 120, 5000}, aspect_ratio : {25},
             brightness : {180, 220}, fault : Faults]

Frames == UNION {ListsOfLen(Contours, n) : n \in 0..MaxContours}

\* cv2.contourArea with the bounds brought in: 50 and 5000 are kept
AreaAcceptedInclusive(area) == 50 <= area /\ area <= 5000

\* line 96
AreaAccepted(area) == 50 < area /\ area < 5000

\* the dict appended for contour i; its place in the list stands for the
\* bounding box, which is what tells two objects of a frame apart
Object(cs, i) ==
    [bbox |-> i, area |-> cs[i].area, aspect_ratio |-> cs[i].aspect_ratio,
     brightness |-> cs[i].brightness, fault |-> cs[i].fault]

\* the loop of detect_moving_objects; it runs inside one try, so a call that
\* raises on contour i ends the loop and the objects found so far are returned
RECURSIVE DetectLoop(_, _, _)
DetectLoop(cs, i, objects) ==
    IF i > Len(cs)
    THEN objects
    ELSE IF cs[i].fault = "contour"
         THEN objects
         ELSE IF AreaAccepted(cs[i].area)
              THEN DetectLoop(cs, i + 1, Append(objects, Object(cs, i)))
              ELSE DetectLoop(cs, i + 1, objects)

DetectMovingObjects(cs) == DetectLoop(cs, 1, <<>>)

Verdict(type, confidence) == [type |-> type, confidence |-> confidence]

\* HeuristicClassification without the area test of its first rule
HeuristicBrightOnly(obj) ==
    IF obj.brightness > 200
    THEN IF obj.aspect_ratio > 20
         THEN Verdict("meteor", 80)
         ELSE IF obj.area > 500
              THEN Verdict("asteroid", 70)
              ELSE Verdict("meteor", 60)
    ELSE IF obj.brightness > 150
         THEN Verdict("meteor", 50)
         ELSE Verdict("non_meteor", 90)

\* the heuristic with a long bright object rated 0.85
HeuristicConfident(obj) ==
    IF obj.brightness > 200 /\ obj.area > 100
    THEN IF obj.aspect_ratio > 20
         THEN Verdict("meteor", 85)
         ELSE IF obj.area > 500
              THEN Verdict("asteroid", 70)
              ELSE Verdict("meteor", 60)
    ELSE IF obj.brightness > 150
         THEN Verdict("meteor", 50)
         ELSE Verdict("non_meteor", 90)

HeuristicClassification(obj) ==
    IF obj.brightness > 200 /\ obj.area > 100
    THEN IF obj.aspect_ratio > 20
         THEN Verdict("meteor", 80)
         ELSE IF obj.area > 500
              THEN Verdict("asteroid", 70)
              ELSE Verdict("meteor", 60)
    ELSE IF obj.brightness > 150
         THEN Verdict("meteor", 50)
         ELSE Verdict("non_meteor", 90)

\* classify_object: the dict built from the heuristic's verdict, or the
\* dict of the except branch
ClassifyObject(obj) ==
    IF obj.fault = "classify"
    THEN [type |-> "non_meteor", confidence |-> 0, bbox |-> obj.bbox,
          area |-> obj.area, properties |-> None]
    ELSE [type |-> HeuristicClassification(obj).type,
          confidence |-> HeuristicClassification(obj).confidence,
          bbox |-> obj.bbox, area |-> obj.area,
          properties |-> Some(<<obj.aspect_ratio, obj.brightness>>)]

\* Passes with >= for >: a tie with the threshold is kept
PassesOrTies(confidence, threshold) == confidence >= threshold

\* line 47
Passes(confidence, threshold) == confidence > threshold

AnalyzeFrame(loaded, threshold, cs) ==
    IF ~loaded
    THEN <<>>
    ELSE LET moving_objects == DetectMovingObjects(cs)
             classified == [i \in 1..Len(moving_objects) |->
                               ClassifyObject(moving_objects[i])]
             Kept(c) == Passes(c.confidence, threshold)
         IN  SelectSeq(classified, Kept)

\* ------------------------------------------------------ the detector's API
ThresholdInputs == {0 - 1, 0, 80, 101}

DetDid(op, arg, res) == [op |-> op, arg |-> arg, res |-> res, raised |-> "none"]

LoadModel ==
    /\ model_loaded' = TRUE
    /\ detLast' = DetDid("load_model", None, <<>>)
    /\ UNCHANGED <<detection_threshold, contours, exceptDetector>>

SetDetectionThreshold ==
    \E threshold \in ThresholdInputs :
        /\ detection_threshold' =
               IF 0 <= threshold /\ threshold <= 100
               THEN threshold ELSE detection_threshold
        /\ detLast' = DetDid("set_detection_threshold", Some(threshold), <<>>)
        /\ UNCHANGED <<model_loaded, contours, exceptDetector>>

\* analyze_frame on the frame whose contours are `contours`; arg keeps the
\* threshold and the model_loaded flag the call ran under
AnalyzeFrameCall ==
    /\ detLast' = DetDid("analyze_frame",
                      <<detection_threshold, model_loaded>>,
                      AnalyzeFrame(model_loaded, detection_threshold, contours))
    /\ UNCHANGED <<model_loaded, detection_threshold, contours,
                   exceptDetector>>

PositionerCreated ==
    /\ variant = "real"
    /\ gpio = FALSE
    /\ pwmFault = FALSE
    /\ initialized = FALSE
    /\ positions = home_positions
    /\ servo_pwm = {}
    /\ pwmStops = [a \in Axes |-> 0]
    /\ gpioCleanups = 0
    /\ last = NoLast
    /\ dets = <<>>
    /\ phase = "unused"
    /\ pc = Idle
    /\ lockHolder = 0
    /\ frame = NoFrames

InitDetector ==
    /\ PositionerCreated
    /\ DetectorCreated
    /\ contours \in Frames
    /\ SensorsCreated

NextDetector ==
    \/ LoadModel
    \/ SetDetectionThreshold
    \/ AnalyzeFrameCall

SpecDetector == InitDetector /\ [][NextDetector]_vars

\* ------------------------------------------- one heuristic_classification
HeuristicContours == [area : {50, 100, 101, 120, 500, 501},
                      aspect_ratio : {20, 21, 25},
                      brightness : {150, 151, 200, 201, 220},
                      fault : {"none"}]

InitHeuristic ==
    /\ PositionerCreated
    /\ DetectorCreated
    /\ contours \in {<<c>> : c \in HeuristicContours}
    /\ SensorsCreated

HeuristicStep ==
    /\ detLast.op = "none"
    /\ detLast' = DetDid("heuristic_classification", None,
                      <<HeuristicClassification(Object(contours, 1))>>)
    /\ UNCHANGED <<model_loaded, detection_threshold, contours,
                   exceptDetector>>

SpecHeuristic == InitHeuristic /\ [][HeuristicStep]_vars

\* --------------------------------------------------------------- C11
Analyzed == detLast.op = "analyze_frame"

ThresholdUsed == detLast.arg[1]

LoadedWhenUsed == detLast.arg[2]

\* the contours of the frame that are in the list analyze_frame returned
Returned == {detLast.res[k].bbox : k \in 1..Len(detLast.res)}

\* C11: every classification analyze_frame returns has a confidence strictly
\* above the threshold the call ran under; a confidence equal to the
\* threshold is not returned.
C11_AboveThreshold ==
    Analyzed =>
        \A k \in 1..Len(detLast.res) :
            detLast.res[k].confidence > ThresholdUsed

\* at the default threshold a Meteor@0.5 was classified and left out, while
\* another object of the frame was returned
C11_Witness ==
    /\ Analyzed
    /\ LoadedWhenUsed
    /\ ThresholdUsed = 50
    /\ Len(detLast.res) > 0
    /\ \E i \in 1..Len(contours) :
        /\ contours[i].fault = "none"
        /\ AreaAccepted(contours[i].area)
        /\ HeuristicClassification(Object(contours, i)) = Verdict("meteor", 50)
        /\ i \notin Returned

\* --------------------------------------------------------------- C12
ThresholdSet == detLast.op = "set_detection_threshold"

\* C12: set_detection_threshold(t) with t outside [0,1] fails with
\* InvalidArgument and leaves the threshold as it was; with t inside [0,1],
\* bounds included, the threshold becomes t and nothing is raised.
C12_InvalidThresholdFails ==
    [][ThresholdSet' =>
          IF 0 <= detLast'.arg[1] /\ detLast'.arg[1] <= 100
          THEN /\ detection_threshold' = detLast'.arg[1]
               /\ detLast'.raised = "none"
          ELSE /\ detection_threshold' = detection_threshold
               /\ detLast'.raised = "InvalidArgument"]_vars

\* --------------------------------------------------------------- C13
\* C13: every classification analyze_frame returns is of a contour of the
\* frame whose area is strictly between 50 and 5000; a contour of area <= 50
\* or >= 5000 is not among them.
C13_OnlyMidSizedReturned ==
    Analyzed =>
        /\ \A k \in 1..Len(detLast.res) :
            /\ 50 < detLast.res[k].area
            /\ detLast.res[k].area < 5000
            /\ detLast.res[k].area = contours[detLast.res[k].bbox].area
        /\ \A i \in 1..Len(contours) :
            (contours[i].area <= 50 \/ contours[i].area >= 5000)
                => i \notin Returned

\* a contour of area 50 or 5000 that the heuristic would put above the
\* threshold was left out of a list that returned another object
C13_Witness ==
    /\ Analyzed
    /\ LoadedWhenUsed
    /\ Len(detLast.res) > 0
    /\ \E i \in 1..Len(contours) :
        /\ contours[i].area \in {50, 5000}
        /\ contours[i].fault = "none"
        /\ HeuristicClassification(Object(contours, i)).confidence
               > ThresholdUsed
        /\ i \notin Returned

\* --------------------------------------------------------------- C14
Classified == detLast.op = "heuristic_classification"

\* the decision table, one row per case
Table(brightness, area, aspect_ratio) ==
    CASE brightness > 200 /\ area > 100 /\ aspect_ratio > 20
             -> Verdict("meteor", 80)
      [] brightness > 200 /\ area > 100 /\ aspect_ratio <= 20 /\ area > 500
             -> Verdict("asteroid", 70)
      [] brightness > 200 /\ area > 100 /\ aspect_ratio <= 20 /\ area <= 500
             -> Verdict("meteor", 60)
      [] brightness > 200 /\ area <= 100
             -> Verdict("meteor", 50)
      [] brightness <= 200 /\ brightness > 150
             -> Verdict("meteor", 50)
      [] brightness <= 150
             -> Verdict("non_meteor", 90)

\* C14: heuristic_classification is the decision table over (brightness,
\* area, aspect_ratio): bright and area > 100 gives Meteor@0.8 when
\* elongated, else Asteroid@0.7 when area > 500, else Meteor@0.6; otherwise
\* brightness > 150 gives Meteor@0.5; otherwise NonMeteor@0.9.  Area 120,
\* aspect ratio 2.5, brightness 220 gives Meteor@0.8; brightness > 200 with
\* area <= 100 gives Meteor@0.5.
C14_DecisionTable ==
    Classified =>
        LET o == contours[1]
            v == detLast.res[1]
        IN  /\ v = Table(o.brightness, o.area, o.aspect_ratio)
            /\ (o.area = 120 /\ o.aspect_ratio = 25 /\ o.brightness = 220)
                   => v = Verdict("meteor", 80)
            /\ (o.brightness > 200 /\ o.area <= 100)
                   => v = Verdict("meteor", 50)

\* a bright object of area <= 100 was classified
C14_Witness ==
    /\ Classified
    /\ contours[1].brightness > 200
    /\ contours[1].area <= 100
    /\ detLast.res[1] = Verdict("meteor", 50)

\* --------------------------------------------------------------- C15
\* what analyze_frame would return for contour i alone
Survives(i) ==
    /\ contours[i].fault = "none"
    /\ AreaAccepted(contours[i].area)
    /\ Passes(HeuristicClassification(Object(contours, i)).confidence,
              ThresholdUsed)

\* C15: analyze_frame never raises; a contour whose processing fails is not
\* in the list returned, and every other contour of the frame is in it
\* exactly when it passes the area filter and the threshold.
C15_FailureSkipsOnlyThatContour ==
    (Analyzed /\ LoadedWhenUsed) =>
        /\ detLast.raised = "none"
        /\ \A i \in 1..Len(contours) : (i \in Returned) <=> Survives(i)

\* ==================================================== the position source
\* latitude 1 and 2, altitude 3, ... are readings; only their being equal or
\* different, empty or not, matters
GgaFix == Message("GGA", 1, 1, 3, 5, 1, 2)

GgaEmpty == Message("GGA", 0, 0, 0, 0, 0, 0)

Rmc == Message("RMC", 2, 2, 0, 0, 0, 0)

Gsa == Message("GSA", 0, 0, 0, 0, 0, 4)

\* a line pynmea2 cannot parse
Malformed == Message("bad", 0, 0, 0, 0, 0, 0)

\* a position without a fix quality
GgaSearching == Message("GGA", 1, 1, 0, 0, 0, 0)

Sentences == {GgaFix, GgaSearching, GgaEmpty, Rmc, Gsa, Malformed}

Feeds == UNION {ListsOfLen(Sentences, n) : n \in 0..MaxSentences}

\* float(x) if x else None
Optional(x) == IF x # 0 THEN Some(x) ELSE None

\* Accepted that lets every GGA sentence through
AcceptedAnyGga(msg) ==
    CASE msg.kind = "GGA" -> TRUE
      [] msg.kind = "RMC" -> msg.latitude # 0 /\ msg.longitude # 0
      [] msg.kind = "GSA" -> msg.hdop # 0
      [] OTHER -> FALSE

\* the test that guards the assignments of a sentence's update
Accepted(msg) ==
    CASE msg.kind \in {"GGA", "RMC"} -> msg.latitude # 0 /\ msg.longitude # 0
      [] msg.kind = "GSA" -> msg.hdop # 0
      [] OTHER -> FALSE

\* the assignments of _update_gga_data, _update_rmc_data, _update_gsa_data,
\* in their order; time.time() is told by n, the count of sentences read
Writes(msg, n) ==
    CASE msg.kind = "GGA" ->
             << <<"latitude", Some(msg.latitude)>>,
                <<"longitude", Some(msg.longitude)>>,
                <<"altitude", Optional(msg.altitude)>>,
                <<"satellites", msg.num_sats>>,
                <<"fix_quality", msg.gps_qual>>,
                <<"hdop", Optional(msg.hdop)>>,
                <<"timestamp", Some(n)>> >>
      [] msg.kind = "RMC" ->
             << <<"latitude", Some(msg.latitude)>>,
                <<"longitude", Some(msg.longitude)>>,
                <<"timestamp", Some(n)>> >>
      [] msg.kind = "GSA" ->
             << <<"hdop", Some(msg.hdop)>> >>
      [] OTHER -> <<>>

\* GpsLockFree with the test left out: the with block is entered at once
GpsLockIgnored(holder) == TRUE

\* with self.gps_lock: entered only while no thread holds the lock
GpsLockFree(holder) == holder = "free"

\* HasFix without the test of the fix quality
HasFixAnyQuality(location) ==
    /\ location.latitude # None
    /\ location.longitude # None

\* lines 175-179
HasFix(location) ==
    /\ location.latitude # None
    /\ location.longitude # None
    /\ location.fix_quality > 0

\* DictCopy that hands out the stored dict itself
DictAlias(d) == [alias |-> TRUE, val |-> d]

\* self.current_location.copy()
DictCopy(d) == [alias |-> FALSE, val |-> d]

\* ConnOpen that takes any port for an open one
ConnAny(conn) == TRUE

\* self.serial_conn and self.serial_conn.is_open
ConnOpen(conn) == conn = "open"

\* TimeLeft that never runs out
TimeLeftAlways(elapsed, timeout) == TRUE

\* time.time() - start_time < timeout
TimeLeft(elapsed, timeout) == elapsed < timeout

\* ------------------------------------------------------ _gps_read_loop
\* A pass of the loop that finds nothing waiting only sleeps: it changes
\* nothing and is a stuttering step.
GpsLoopExit ==
    /\ gps_thread.pc = "loop"
    /\ ~gps_running
    /\ gps_thread' = [gps_thread EXCEPT !.pc = "finished"]
    /\ UNCHANGED <<current_location, gps_running, serial_conn, serial_in,
                   gps_lock, gpsCall, serialCloses, committed, exceptGps>>

\* readline() and pynmea2.parse(): a sentence of a kind that is handled goes
\* on to its update, any other line is dropped
GpsReadSentence ==
    /\ gps_thread.pc = "loop"
    /\ gps_running
    /\ serial_conn = "open"
    /\ serial_in # <<>>
    /\ serial_in' = Tail(serial_in)
    /\ gps_thread' =
           IF Head(serial_in).kind \in {"GGA", "RMC", "GSA"}
           THEN [pc |-> "lock", msg |-> Head(serial_in), i |-> 1,
                 n |-> gps_thread.n + 1]
           ELSE [gps_thread EXCEPT !.n = gps_thread.n + 1]
    /\ UNCHANGED <<current_location, gps_running, serial_conn, gps_lock,
                   gpsCall, serialCloses, committed, exceptGps>>

GpsAcquire ==
    /\ gps_thread.pc = "lock"
    /\ GpsLockFree(gps_lock)
    /\ gps_lock' = "reader"
    /\ gps_thread' = [gps_thread EXCEPT !.pc =
           IF Accepted(gps_thread.msg) THEN "write" ELSE "unlock"]
    /\ UNCHANGED <<current_location, gps_running, serial_conn, serial_in,
                   gpsCall, serialCloses, committed, exceptGps>>

\* one assignment to a key of self.current_location
GpsWrite ==
    LET writes == Writes(gps_thread.msg, gps_thread.n)
        w == writes[gps_thread.i]
    IN  /\ gps_thread.pc = "write"
        /\ current_location' = [current_location EXCEPT ![w[1]] = w[2]]
        /\ gps_thread' = [gps_thread EXCEPT
               !.i = gps_thread.i + 1,
               !.pc = IF gps_thread.i = Len(writes) THEN "unlock" ELSE "write"]
        /\ UNCHANGED <<gps_running, serial_conn, serial_in, gps_lock, gpsCall,
                       serialCloses, committed, exceptGps>>

\* the with block is left; the sentence is done
GpsRelease ==
    /\ gps_thread.pc = "unlock"
    /\ gps_lock' = "free"
    /\ gps_thread' = [gps_thread EXCEPT !.pc = "loop", !.msg = NoMessage,
                                        !.i = 0]
    /\ committed' = Append(committed, [kind |-> gps_thread.msg.kind,
                                       fix |-> current_location])
    /\ UNCHANGED <<current_location, gps_running, serial_conn, serial_in,
                   gpsCall, serialCloses, exceptGps>>

\* ------------------------------------------- calls on the position source
\* One thread makes the calls, one at a time.
CallFree == gpsCall.pc \in {"idle", "done"}

Calling(op, at) == [NoCallGps EXCEPT !.op = op, !.pc = at,
                                     !.stops = gpsCall.stops]

\* start(): the port opens, or comes back not open, or serial.Serial raises.
\* It is not called while a reading thread of an earlier start() is alive.
GpsStart ==
    \E outcome \in {"open", "unopened", "error"} :
        /\ CallFree
        /\ gps_thread.pc \in {"unset", "finished"}
        /\ serial_conn' = IF outcome = "error" THEN serial_conn ELSE outcome
        /\ gps_running' = IF outcome = "open" THEN TRUE ELSE gps_running
        /\ gps_thread' = IF outcome = "open"
                         THEN [gps_thread EXCEPT !.pc = "loop"]
                         ELSE gps_thread
        /\ serialCloses' = IF outcome = "error" THEN serialCloses ELSE 0
        /\ gpsCall' = [NoCallGps EXCEPT !.op = "start", !.pc = "done",
               !.res = IF outcome = "open" THEN "True" ELSE "False",
               !.stops = IF outcome = "error" THEN gpsCall.stops ELSE 0]
        /\ UNCHANGED <<current_location, serial_in, gps_lock, committed,
                       exceptGps>>

GetLocationBegin ==
    /\ CallFree
    /\ gpsCall' = Calling("get_location", "lock")
    /\ UNCHANGED <<current_location, gps_running, serial_conn, serial_in,
                   gps_lock, gps_thread, serialCloses, committed, exceptGps>>

HasFixBegin ==
    /\ CallFree
    /\ gpsCall' = Calling("has_fix", "lock")
    /\ UNCHANGED <<current_location, gps_running, serial_conn, serial_in,
                   gps_lock, gps_thread, serialCloses, committed, exceptGps>>

Timeouts == {0, MaxTimeout}

\* start_time = time.time()
WaitForFixBegin ==
    \E timeout \in Timeouts :
        /\ CallFree
        /\ gpsCall' = [Calling("wait_for_fix", "check") EXCEPT
                          !.timeout = timeout]
        /\ UNCHANGED <<current_location, gps_running, serial_conn, serial_in,
                       gps_lock, gps_thread, serialCloses, committed,
                       exceptGps>>

\* the test of the while loop of wait_for_fix
WaitCheck ==
    /\ gpsCall.pc = "check"
    /\ gpsCall' = IF TimeLeft(gpsCall.elapsed, gpsCall.timeout)
                  THEN [gpsCall EXCEPT !.pc = "lock"]
                  ELSE [gpsCall EXCEPT !.pc = "done", !.res = "False"]
    /\ UNCHANGED <<current_location, gps_running, serial_conn, serial_in,
                   gps_lock, gps_thread, serialCloses, committed, exceptGps>>

\* get_location enters its with block
CallAcquire ==
    /\ gpsCall.pc = "lock"
    /\ GpsLockFree(gps_lock)
    /\ gps_lock' = "caller"
    /\ gpsCall' = [gpsCall EXCEPT !.pc = "copy"]
    /\ UNCHANGED <<current_location, gps_running, serial_conn, serial_in,
                   gps_thread, serialCloses, committed, exceptGps>>

\* get_location copies the dict and leaves the with block; has_fix tests the
\* copy; wait_for_fix returns True on a fix and sleeps otherwise
CallCopy ==
    LET location == DictCopy(current_location)
        fix == HasFix(location.val)
    IN  /\ gpsCall.pc = "copy"
        /\ gps_lock' = "free"
        /\ gpsCall' =
               CASE gpsCall.op = "get_location" ->
                        [gpsCall EXCEPT !.snapshot = location, !.pc = "done",
                                        !.res = "dict"]
                 [] gpsCall.op = "has_fix" ->
                        [gpsCall EXCEPT !.snapshot = location, !.pc = "done",
                            !.res = IF fix THEN "True" ELSE "False"]
                 [] OTHER ->
                        [gpsCall EXCEPT !.snapshot = location,
                            !.pc = IF fix THEN "done" ELSE "sleep",
                            !.res = IF fix THEN "True" ELSE "None"]
        /\ UNCHANGED <<current_location, gps_running, serial_conn, serial_in,
                       gps_thread, serialCloses, committed, exceptGps>>

\* time.sleep(1) lasts a second or longer
SleepTimes == {1, 2}

\* AfterSleep with a sleep during which no time passes
AfterNoSleep(elapsed, d) == elapsed

\* time.time() - start_time after a sleep of d seconds
AfterSleep(elapsed, d) == elapsed + d

WaitSleep ==
    \E d \in SleepTimes :
        /\ gpsCall.pc = "sleep"
        /\ gpsCall' = [gpsCall EXCEPT !.pc = "check",
                          !.elapsed = AfterSleep(gpsCall.elapsed, d)]
        /\ UNCHANGED <<current_location, gps_running, serial_conn, serial_in,
                       gps_lock, gps_thread, serialCloses, committed,
                       exceptGps>>

\* a latitude no sentence carries
Scribble == Some(9)

\* the caller assigns to a key of the dict get_location gave it
MutateSnapshot ==
    /\ gpsCall.pc = "done"
    /\ gpsCall.op = "get_location"
    /\ ~gpsCall.mutated
    /\ gpsCall' = [gpsCall EXCEPT !.mutated = TRUE,
                       !.snapshot.val.latitude = Scribble]
    /\ current_location' =
           IF gpsCall.snapshot.alias
           THEN [current_location EXCEPT !.latitude = Scribble]
           ELSE current_location
    /\ UNCHANGED <<gps_running, serial_conn, serial_in, gps_lock, gps_thread,
                   serialCloses, committed, exceptGps>>

\* stop(): the flag is cleared; join() follows if start() made a thread
GpsStopBegin ==
    /\ CallFree
    /\ gpsCall.stops < MaxStops
    /\ gps_running' = FALSE
    /\ gpsCall' = [Calling("stop",
                       IF gps_thread.pc = "unset" THEN "close" ELSE "join")
                   EXCEPT !.stops = gpsCall.stops + 1]
    /\ UNCHANGED <<current_location, serial_conn, serial_in, gps_lock,
                   gps_thread, serialCloses, committed, exceptGps>>

\* join(timeout=5) returns: the thread has ended, or five seconds are over
GpsStopJoin ==
    /\ gpsCall.pc = "join"
    /\ gpsCall' = [gpsCall EXCEPT !.pc = "close"]
    /\ UNCHANGED <<current_location, gps_running, serial_conn, serial_in,
                   gps_lock, gps_thread, serialCloses, committed, exceptGps>>

\* lines 280-282 and the return
GpsStopClose ==
    /\ gpsCall.pc = "close"
    /\ serialCloses' = IF ConnOpen(serial_conn)
                       THEN serialCloses + 1 ELSE serialCloses
    /\ serial_conn' = IF ConnOpen(serial_conn) THEN "None" ELSE serial_conn
    /\ gpsCall' = [gpsCall EXCEPT !.pc = "done", !.res = "None"]
    /\ UNCHANGED <<current_location, gps_running, serial_in, gps_lock,
                   gps_thread, committed, exceptGps>>

InitGps ==
    /\ PositionerCreated
    /\ DetectorCreated
    /\ contours = <<>>
    /\ GpsCreated
    /\ serial_in \in Feeds
    /\ CameraCreated
    /\ cam_in = 0
    /\ SystemCreated

NextGps ==
    \/ GpsStart
    \/ GpsReadSentence
    \/ GpsAcquire
    \/ GpsWrite
    \/ GpsRelease
    \/ GetLocationBegin
    \/ HasFixBegin
    \/ CallAcquire
    \/ CallCopy
    \/ MutateSnapshot

SpecGps == InitGps /\ [][NextGps]_vars

\* --------------------------------------------------- wait_for_fix, live
ReaderStep == GpsReadSentence \/ GpsAcquire \/ GpsWrite \/ GpsRelease

WaiterStep == WaitCheck \/ CallAcquire \/ CallCopy \/ WaitSleep

NextWait ==
    \/ GpsStart
    \/ GpsReadSentence
    \/ GpsAcquire
    \/ GpsWrite
    \/ GpsRelease
    \/ WaitForFixBegin
    \/ WaitCheck
    \/ CallAcquire
    \/ CallCopy
    \/ WaitSleep

\* Both threads get the processor again and again.  The reading thread
\* holds the lock for a few assignments and sleeps 100 ms in every pass, so
\* a caller that asks for the lock again and again gets it.
SpecWait ==
    /\ InitGps
    /\ [][NextWait]_vars
    /\ WF_vars(ReaderStep)
    /\ SF_vars(WaiterStep)

\* --------------------------------------------------------------- C16
HasFixReturns ==
    /\ gpsCall.op = "has_fix"
    /\ gpsCall.pc = "copy"
    /\ gpsCall'.pc = "done"

\* every sentence that has been applied so far was an RMC
OnlyRmc == \A k \in 2..Len(committed) : committed[k].kind = "RMC"

\* C16: has_fix() returns True exactly when the stored latitude and longitude
\* are both set and the stored fix quality is above 0; it returns False as
\* long as only RMC sentences, which carry no fix quality, have been applied.
C16_FixIffPositionAndQuality ==
    [][HasFixReturns =>
          /\ (gpsCall'.res = "True") <=>
                 /\ current_location.latitude # None
                 /\ current_location.longitude # None
                 /\ current_location.fix_quality > 0
          /\ gpsCall'.res \in {"True", "False"}
          /\ OnlyRmc => gpsCall'.res = "False"]_vars

\* has_fix() said False on a position that an RMC sentence had stored
C16_Witness ==
    /\ gpsCall.op = "has_fix"
    /\ gpsCall.pc = "done"
    /\ gpsCall.res = "False"
    /\ gpsCall.snapshot.val.latitude # None
    /\ gpsCall.snapshot.val.longitude # None
    /\ Len(committed) > 1
    /\ OnlyRmc

\* --------------------------------------------------------------- C17
Waiting == gpsCall.op = "wait_for_fix" /\ gpsCall.pc # "done"

WaitOver == gpsCall.op = "wait_for_fix" /\ gpsCall.pc = "done"

WaitSafe ==
    /\ (WaitOver /\ gpsCall.res = "True") =>
           /\ gpsCall.snapshot.val.latitude # None
           /\ gpsCall.snapshot.val.longitude # None
           /\ gpsCall.snapshot.val.fix_quality > 0
    /\ (WaitOver /\ gpsCall.res # "True") =>
           /\ gpsCall.res = "False"
           /\ gpsCall.elapsed >= gpsCall.timeout
    /\ (Waiting /\ gpsCall.pc = "sleep") =>
           \/ gpsCall.snapshot.val.latitude = None
           \/ gpsCall.snapshot.val.longitude = None
           \/ gpsCall.snapshot.val.fix_quality <= 0

\* C17: wait_for_fix(timeout) always returns: True only from a poll that saw
\* a fix, and from the first such poll; False only once the timeout has
\* passed; the reading thread goes on applying sentences meanwhile.
C17_WaitReturns == []WaitSafe /\ (Waiting ~> WaitOver)

\* wait_for_fix slept at least once and then returned True: the fix came
\* while it was waiting
C17_Witness ==
    /\ WaitOver
    /\ gpsCall.res = "True"
    /\ gpsCall.elapsed > 0
    /\ gpsCall.elapsed < gpsCall.timeout

\* --------------------------------------------------------------- C18
\* f is the stored fix as some sentence left it (or as it was constructed)
Whole(f) == \E k \in 1..Len(committed) : committed[k].fix = f

Updating == gps_thread.pc \in {"write", "unlock"}

\* C18: the dict get_location returns is the stored fix as it was between
\* two sentences, never one that a sentence has half written; and assigning
\* to the returned dict leaves the stored fix as the last sentence left it.
C18_SnapshotIsWhole ==
    /\ ~gpsCall.mutated =>
           /\ Whole(gpsCall.snapshot.val)
           /\ ~gpsCall.snapshot.alias
    /\ ~Updating => current_location = committed[Len(committed)].fix

\* a dict returned earlier has been assigned to, and a GGA sentence is now
\* half written
C18_Witness ==
    /\ gpsCall.op = "get_location"
    /\ gpsCall.pc = "done"
    /\ gpsCall.mutated
    /\ gpsCall.snapshot.val.longitude # None
    /\ gps_thread.pc = "write"
    /\ gps_thread.i > 1
    /\ current_location.latitude # Scribble

\* ======================================================= the frame source
\* StoreFrame that keeps a frame that has not been replaced yet
StoreFrameKeep(old, new) == IF old = None THEN new ELSE old

\* self.latest_frame = enhanced_frame
StoreFrame(old, new) == new

\* FrameCopy that hands out the stored array itself
FrameAlias(f) == [alias |-> TRUE, val |-> f]

\* self.latest_frame.copy()
FrameCopy(f) == [alias |-> FALSE, val |-> f]

\* CapPresent that takes None for a device
CapAny(c) == TRUE

\* self.cap is not None
CapPresent(c) == c # "None"

FrameLockFree(holder) == holder = "free"

\* ---------------------------------------------------------- _capture_loop
\* A pass of the loop whose read fails or raises only sleeps; what it slept
\* is kept in capture_thread.
CaptureLoopExit ==
    /\ capture_thread.pc = "loop"
    /\ ~cam_running
    /\ capture_thread' = [capture_thread EXCEPT !.pc = "finished"]
    /\ UNCHANGED <<cap, cam_running, latest_frame, frame_lock, camCall,
                   capReleases, cam_in, exceptCamera>>

\* self.cap.read() returns a frame, _enhance_frame makes the array to store
CaptureRead ==
    /\ capture_thread.pc = "loop"
    /\ cam_running
    /\ cap = "open"
    /\ cam_in > 0
    /\ cam_in' = cam_in - 1
    /\ capture_thread' = [pc |-> "store", frame |-> capture_thread.n + 1,
                          n |-> capture_thread.n + 1, fails |-> 0,
                          slept |-> 0]
    /\ UNCHANGED <<cap, cam_running, latest_frame, frame_lock, camCall,
                   capReleases, exceptCamera>>

\* the sleep after a read that returned ret = False, line 103
ReadBackoff(fails) == 1

\* the sleep of the except branch, line 107
ErrorBackoff == 10

\* self.cap.read() returns ret = False: a warning and a sleep
CaptureReadFail ==
    /\ capture_thread.pc = "loop"
    /\ cam_running
    /\ cap = "open"
    /\ capture_thread.fails < MaxFailures
    /\ capture_thread' = [capture_thread EXCEPT
           !.fails = capture_thread.fails + 1,
           !.slept = ReadBackoff(capture_thread.fails + 1)]
    /\ UNCHANGED <<cap, cam_running, latest_frame, frame_lock, camCall,
                   capReleases, cam_in, exceptCamera>>

\* self.cap.read() raises: the except branch logs and sleeps; the run of
\* reads that returned no frame is over
CaptureReadRaise ==
    /\ capture_thread.pc = "loop"
    /\ cam_running
    /\ cap = "open"
    /\ capture_thread.slept # ErrorBackoff
    /\ capture_thread' = [capture_thread EXCEPT !.fails = 0,
                                                !.slept = ErrorBackoff]
    /\ UNCHANGED <<cap, cam_running, latest_frame, frame_lock, camCall,
                   capReleases, cam_in, exceptCamera>>

\* with self.frame_lock: self.latest_frame = enhanced_frame
CaptureStore ==
    /\ capture_thread.pc = "store"
    /\ FrameLockFree(frame_lock)
    /\ latest_frame' = StoreFrame(latest_frame, Some(capture_thread.frame))
    /\ capture_thread' = [capture_thread EXCEPT !.pc = "loop", !.frame = 0]
    /\ UNCHANGED <<cap, cam_running, frame_lock, camCall, capReleases, cam_in,
                   exceptCamera>>

\* ---------------------------------------------- calls on the frame source
CamFree == camCall.pc \in {"idle", "done"}

CamCalling(op, at) == [NoCallCam EXCEPT !.op = op, !.pc = at,
                                        !.stops = camCall.stops]

\* start(): the device opens, or comes back not opened, or cv2.VideoCapture
\* raises.  It is not called while a capture thread of an earlier start()
\* is alive.
CameraStart ==
    \E outcome \in {"open", "unopened", "error"} :
        /\ CamFree
        /\ capture_thread.pc \in {"unset", "finished"}
        /\ cap' = IF outcome = "error" THEN cap ELSE outcome
        /\ cam_running' = IF outcome = "open" THEN TRUE ELSE cam_running
        /\ capture_thread' = IF outcome = "open"
                             THEN [capture_thread EXCEPT !.pc = "loop",
                                      !.fails = 0, !.slept = 0]
                             ELSE capture_thread
        /\ capReleases' = IF outcome = "error" THEN capReleases ELSE 0
        /\ camCall' = [NoCallCam EXCEPT !.op = "start", !.pc = "done",
               !.res = IF outcome = "open" THEN "True" ELSE "False",
               !.stops = IF outcome = "error" THEN camCall.stops ELSE 0]
        /\ UNCHANGED <<latest_frame, frame_lock, cam_in, exceptCamera>>

\* capture_frame is called; seen keeps the frame that is stored at that time
CaptureFrameBegin ==
    /\ CamFree
    /\ camCall' = [CamCalling("capture_frame", "lock") EXCEPT
                      !.seen = latest_frame]
    /\ UNCHANGED <<cap, cam_running, latest_frame, frame_lock, capture_thread,
                   capReleases, cam_in, exceptCamera>>

CaptureFrameAcquire ==
    /\ camCall.pc = "lock"
    /\ FrameLockFree(frame_lock)
    /\ frame_lock' = "caller"
    /\ camCall' = [camCall EXCEPT !.pc = "copy"]
    /\ UNCHANGED <<cap, cam_running, latest_frame, capture_thread,
                   capReleases, cam_in, exceptCamera>>

\* line 152 and the end of the with block
CaptureFrameCopy ==
    /\ camCall.pc = "copy"
    /\ frame_lock' = "free"
    /\ camCall' = [camCall EXCEPT !.pc = "done",
           !.image = IF latest_frame # None
                     THEN FrameCopy(latest_frame) ELSE NoImage,
           !.res = IF latest_frame # None THEN "array" ELSE "None"]
    /\ UNCHANGED <<cap, cam_running, latest_frame, capture_thread,
                   capReleases, cam_in, exceptCamera>>

\* a frame no device delivers
Doodle == Some(0 - 1)

\* the caller draws on the array capture_frame gave it
MutateFrame ==
    /\ camCall.pc = "done"
    /\ camCall.op = "capture_frame"
    /\ camCall.res = "array"
    /\ ~camCall.mutated
    /\ camCall' = [camCall EXCEPT !.mutated = TRUE, !.image.val = Doodle]
    /\ latest_frame' = IF camCall.image.alias THEN Doodle ELSE latest_frame
    /\ UNCHANGED <<cap, cam_running, frame_lock, capture_thread, capReleases,
                   cam_in, exceptCamera>>

\* stop(): the flag is cleared; join() follows if start() made a thread
CameraStopBegin ==
    /\ CamFree
    /\ camCall.stops < MaxStops
    /\ cam_running' = FALSE
    /\ camCall' = [CamCalling("stop",
                       IF capture_thread.pc = "unset" THEN "release"
                       ELSE "join")
                   EXCEPT !.stops = camCall.stops + 1]
    /\ UNCHANGED <<cap, latest_frame, frame_lock, capture_thread, capReleases,
                   cam_in, exceptCamera>>

\* join(timeout=5) returns: the thread has ended, or five seconds are over
CameraStopJoin ==
    /\ camCall.pc = "join"
    /\ camCall' = [camCall EXCEPT !.pc = "release"]
    /\ UNCHANGED <<cap, cam_running, latest_frame, frame_lock, capture_thread,
                   capReleases, cam_in, exceptCamera>>

\* lines 265-267 and the return
CameraStopRelease ==
    /\ camCall.pc = "release"
    /\ capReleases' = IF CapPresent(cap) THEN capReleases + 1 ELSE capReleases
    /\ cap' = IF CapPresent(cap) THEN "None" ELSE cap
    /\ camCall' = [camCall EXCEPT !.pc = "done", !.res = "None"]
    /\ UNCHANGED <<cam_running, latest_frame, frame_lock, capture_thread,
                   cam_in, exceptCamera>>

InitCamera ==
    /\ PositionerCreated
    /\ DetectorCreated
    /\ contours = <<>>
    /\ GpsCreated
    /\ serial_in = <<>>
    /\ CameraCreated
    /\ cam_in \in 0..MaxFrames
    /\ SystemCreated

NextCamera ==
    \/ CameraStart
    \/ CaptureRead
    \/ CaptureReadFail
    \/ CaptureReadRaise
    \/ CaptureStore
    \/ CaptureLoopExit
    \/ CaptureFrameBegin
    \/ CaptureFrameAcquire
    \/ CaptureFrameCopy
    \/ MutateFrame
    \/ CameraStopBegin
    \/ CameraStopJoin
    \/ CameraStopRelease

SpecCamera == InitCamera /\ [][NextCamera]_vars

\* ------------------------------------------- starting and stopping both
InitStop ==
    /\ PositionerCreated
    /\ DetectorCreated
    /\ contours = <<>>
    /\ SensorsCreated

NextStop ==
    \/ CameraStart
    \/ CaptureLoopExit
    \/ CameraStopBegin
    \/ CameraStopJoin
    \/ CameraStopRelease
    \/ GpsStart
    \/ GpsLoopExit
    \/ GpsStopBegin
    \/ GpsStopJoin
    \/ GpsStopClose

SpecStop == InitStop /\ [][NextStop]_vars

\* --------------------------------------------------------------- C19
\* the number of a frame, 0 for no frame
FrameNumber(f) == IF f = None THEN 0 ELSE f[1]

\* the frames stored so far: all that were read, but the one in hand
StoredSoFar ==
    IF capture_thread.pc = "store"
    THEN capture_thread.n - 1 ELSE capture_thread.n

\* C19: capture_frame returns None as long as no frame has been stored and
\* afterwards a copy of the stored frame, which is the newest frame the loop
\* has stored: never older than the frame stored when the call was made,
\* never the frame the loop still has in hand; the stored frame is always
\* the last one stored, whatever the caller does with its copy.
C19_LatestFrameOnly ==
    /\ FrameNumber(latest_frame) = StoredSoFar
    /\ (camCall.op = "capture_frame" /\ camCall.pc = "done") =>
           /\ ~camCall.image.alias
           /\ (camCall.res = "None") <=> (camCall.image.val = None)
           /\ ~camCall.mutated =>
                  /\ FrameNumber(camCall.seen) <= FrameNumber(camCall.image.val)
                  /\ FrameNumber(camCall.image.val) <= StoredSoFar

\* a call made before the first frame was stored returned frame 1, the
\* caller has drawn on it, and the loop has frame 2 in hand
C19_Witness ==
    /\ camCall.op = "capture_frame"
    /\ camCall.pc = "done"
    /\ camCall.seen = None
    /\ camCall.res = "array"
    /\ camCall.mutated
    /\ latest_frame = Some(1)
    /\ capture_thread.pc = "store"
    /\ capture_thread.frame = 2

\* --------------------------------------------------------------- C20
CameraStopped ==
    /\ camCall.op = "stop"
    /\ camCall.pc = "done"

GpsStopped ==
    /\ gpsCall.op = "stop"
    /\ gpsCall.pc = "done"

C21_BackoffEscalates ==
    /\ capture_thread.pc = "finished" => ~cam_running
    /\ capture_thread.pc = "store" => capture_thread.fails = 0
    /\ capture_thread.fails \in {1, 2} => capture_thread.slept = 1
    /\ capture_thread.fails >= 3 => capture_thread.slept = 10

\* ======================================================== the coordinator
\* main() runs on one thread; the reading thread of the position source and
\* the capture thread of the frame source run beside it.  In a run of main()
\* the receiver sends no sentence and the device delivers one frame.  A
\* KeyboardInterrupt is taken to arrive before shutdown() has been entered
\* for the first time.
MaxIterations == 2      \* passes of the detection loop in one run
MaxFaults == 1          \* stop() calls that raise in one run

\* what a frame shows: nothing, or a bright streak and a dark blob
Streak == [area |-> 120, aspect_ratio |-> 25, brightness |-> 220,
           fault |-> "none"]

Dark == [area |-> 120, aspect_ratio |-> 25, brightness |-> 100,
         fault |-> "none"]

SystemFrames == {<<>>, <<Streak, Dark>>}

\* obj['center'], in pixels: the i-th bounding box of a frame is taken to
\* lie 100 pixels right of and 60 pixels below the one before
Center(bbox) == <<100 * bbox * CoordScale, 60 * bbox * CoordScale>>

\* the dicts analyze_frame returns, with the key 'coordinates' of line 141
Located(detections) ==
    [k \in 1..Len(detections) |->
        [type |-> detections[k].type,
         confidence |-> detections[k].confidence,
         coordinates |-> Center(detections[k].bbox)]]

At(place) == sys.pc = place

Goto(place) == [sys EXCEPT !.pc = place]

\* shutdown() is called from `from`: line 90, line 63 or line 168
Enter(from) == [sys EXCEPT !.pc = "shutdown", !.ret = from]

Started(step, ok) ==
    [history EXCEPT !.started = Append(@, [step |-> step, ok |-> ok])]

StartOutcomes == {"open", "unopened", "error"}

\* line 45, gps.start(): the value it returns is not looked at
StartGps ==
    \E outcome \in StartOutcomes :
        /\ At("start")
        /\ serial_conn' = IF outcome = "error" THEN serial_conn ELSE outcome
        /\ gps_running' = IF outcome = "open" THEN TRUE ELSE gps_running
        /\ gps_thread' = IF outcome = "open"
                         THEN [gps_thread EXCEPT !.pc = "loop"]
                         ELSE gps_thread
        /\ serialCloses' = IF outcome = "error" THEN serialCloses ELSE 0
        /\ sys' = Goto("get_location")
        /\ history' = Started("gps", outcome = "open")
        /\ UNCHANGED <<current_location, serial_in, gps_lock, gpsCall,
                       committed, positionerVars, detectorVars, cameraVars,
                       running, detection_count, logged, aside>>

\* lines 46-47: the location is read under the lock and logged
StartLocation ==
    /\ At("get_location")
    /\ GpsLockFree(gps_lock)
    /\ sys' = Goto("camera_start")
    /\ UNCHANGED <<positionerVars, detectorVars, gpsVars, cameraVars,
                   running, detection_count, logged, history, aside>>

\* line 49, camera.start(): the value it returns is not looked at
StartCamera ==
    \E outcome \in StartOutcomes :
        /\ At("camera_start")
        /\ cap' = IF outcome = "error" THEN cap ELSE outcome
        /\ cam_running' = IF outcome = "open" THEN TRUE ELSE cam_running
        /\ capture_thread' = IF outcome = "open"
                             THEN [capture_thread EXCEPT !.pc = "loop"]
                             ELSE capture_thread
        /\ capReleases' = IF outcome = "error" THEN capReleases ELSE 0
        /\ sys' = Goto("servos")
        /\ history' = Started("camera", outcome = "open")
        /\ UNCHANGED <<latest_frame, frame_lock, camCall, cam_in,
                       positionerVars, detectorVars, gpsVars,
                       running, detection_count, logged, aside>>

\* line 52, servos.initialize(): the value it returns is not looked at
StartServos ==
    \E failAt \in InitFailures :
        /\ At("servos")
        /\ IF ~gpio
           THEN /\ failAt = 0
                /\ initialized' = TRUE
                /\ UNCHANGED <<positions, servo_pwm, pwmStops, gpioCleanups>>
           ELSE /\ servo_pwm' = servo_pwm \cup Created(failAt)
                /\ pwmStops' = [a \in Axes |->
                       IF a \in Created(failAt) THEN 0 ELSE pwmStops[a]]
                /\ gpioCleanups' = 0
                /\ positions' = InitLoop(Here, positions,
                       Cardinality(Created(failAt)), 1)
                /\ initialized' = IF failAt = 0 THEN TRUE ELSE initialized
        /\ last' = Did("initialize", IF failAt = 0 THEN "True" ELSE "False",
                       NoCall, NoCall, <<>>)
        /\ sys' = Goto("load_model")
        /\ history' = Started("servos", failAt = 0)
        /\ UNCHANGED <<variant, gpio, pwmFault, dets, phase, pc, lockHolder,
                       frame, detectorVars, gpsVars, cameraVars,
                       running, detection_count, logged, aside>>

\* Flagged with line 58 moved up, before load_model()
FlaggedFirst(loaded, flag) == TRUE

\* line 58 is reached when load_model() has returned
Flagged(loaded, flag) == loaded \/ flag

\* lines 55-59 and 61-63: load_model() returns and the flag is set, or it
\* raises and the except branch calls shutdown()
StartModel ==
    \E loaded \in BOOLEAN :
        /\ At("load_model")
        /\ model_loaded' = (loaded \/ model_loaded)
        /\ running' = Flagged(loaded, running)
        /\ sys' = IF loaded THEN Goto("loop") ELSE Enter("except")
        /\ history' = Started("model", loaded)
        /\ UNCHANGED <<detection_threshold, contours, detLast,
                       positionerVars, gpsVars, cameraVars,
                       detection_count, logged, aside>>

\* ---------------------------------------------------- process_detection
\* line 120 with >= for >
SaveWantedOrTies(detection) ==
    detection.confidence >= 80 /\ detection.type \in {"meteor", "asteroid"}

\* line 120
SaveWanted(detection) ==
    detection.confidence > 80 /\ detection.type \in {"meteor", "asteroid"}

\* Counted that leaves out the kind that is no meteor
CountedButNonMeteor(count, type) ==
    IF type \in DOMAIN count /\ type # "non_meteor"
    THEN [count EXCEPT ![type] = count[type] + 1]
    ELSE count

\* lines 98-99
Counted(count, type) ==
    IF type \in DOMAIN count
    THEN [count EXCEPT ![type] = count[type] + 1]
    ELSE count

\* the dict of lines 104-111 as handed to a method of the data logger
Event(call, detection, gps_location, image) ==
    [call |-> call, type |-> detection.type,
     confidence |-> detection.confidence,
     coordinates |-> detection.coordinates,
     gps_location |-> gps_location, frame_id |-> image]

\* lines 113-121: the calls on the data logger, in their order
Handed(calls, detection, gps_location, image) ==
    LET log == Append(calls,
                   Event("log_detection", detection, gps_location, image))
    IN  IF SaveWanted(detection)
        THEN Append(log, Event("save_frame", detection, gps_location, image))
        ELSE log

\* lines 104-111: detection_data as it is built; the key image_path is not
\* in it
Built(detection, gps_location, image) ==
    [type |-> detection.type, confidence |-> detection.confidence,
     coordinates |-> detection.coordinates, gps_location |-> gps_location,
     frame_id |-> image, image_path |-> None]

\* data_logger.py lines 141-148: when cv2.imwrite has written the image,
\* save_frame stores its path in the dict it was given
Saved(event, written) ==
    IF written THEN [event EXCEPT !.image_path = Some("path")] ELSE event

\* --------------------------------------------------- main_detection_loop
Passed(field, value) == [history EXCEPT !.pass[field] = value]

\* line 68: the flag is polled; line 90 follows the loop
LoopTest ==
    /\ At("loop")
    /\ running => history.iterations < MaxIterations
    /\ sys' = IF running THEN Goto("capture") ELSE Enter("loop_end")
    /\ history' = IF running
                  THEN [history EXCEPT !.iterations = @ + 1, !.pass = NoPass]
                  ELSE history
    /\ UNCHANGED <<positionerVars, detectorVars, gpsVars, cameraVars,
                   running, detection_count, logged, aside>>

\* lines 70-72: capture_frame() copies the stored frame under the lock
CaptureFrame ==
    /\ At("capture")
    /\ FrameLockFree(frame_lock)
    /\ sys' = [sys EXCEPT
           !.frame = IF latest_frame # None
                     THEN FrameCopy(latest_frame).val ELSE None,
           !.pc = IF latest_frame # None THEN "analyze" ELSE "sleep"]
    /\ history' = Passed("fetched", latest_frame # None)
    /\ UNCHANGED <<positionerVars, detectorVars, gpsVars, cameraVars,
                   running, detection_count, logged, aside>>

\* line 73
Analyze ==
    LET detections == Located(AnalyzeFrame(model_loaded, detection_threshold,
                                  contours))
    IN  /\ At("analyze")
        /\ sys' = [sys EXCEPT !.detections = detections, !.i = 1,
               !.pc = IF detections = <<>> THEN "track" ELSE "process"]
        /\ history' = Passed("analyzed", history.pass.analyzed + 1)
        /\ UNCHANGED <<positionerVars, detectorVars, gpsVars, cameraVars,
                       running, detection_count, logged, aside>>

\* lines 75-76: process_detection on the next detection of the list; its
\* get_location() copies the stored fix under the lock
ProcessDetection ==
    \E written \in BOOLEAN :
        LET detection == sys.detections[sys.i]
            gps_location == DictCopy(current_location).val
            detection_data == Built(detection, gps_location, sys.frame)
        IN  /\ At("process")
            /\ GpsLockFree(gps_lock)
            /\ written => SaveWanted(detection)
            /\ detection_count' = Counted(detection_count, detection.type)
            /\ logged' = Handed(logged, detection, gps_location, sys.frame)
            /\ sys' = [sys EXCEPT !.i = sys.i + 1,
                   !.event = Some(IF SaveWanted(detection)
                                  THEN Saved(detection_data, written)
                                  ELSE detection_data),
                   !.pc = IF sys.i = Len(sys.detections)
                          THEN "track" ELSE "process"]
            /\ history' = Passed("processed", history.pass.processed + 1)
            /\ UNCHANGED <<positionerVars, detectorVars, gpsVars,
                           cameraVars, running, aside>>

\* Worth that takes an empty list as well
WorthAlways(detections) == TRUE

\* line 78
Worth(detections) == detections # <<>>

\* lines 78-79
Track ==
    LET r == TrackObjects(Here, positions, sys.detections)
    IN  /\ At("track")
        /\ positions' = IF Worth(sys.detections) THEN r.pos ELSE positions
        /\ last' = IF Worth(sys.detections)
                   THEN Did("track_objects", "None", r.cam, r.dish, r.moves)
                   ELSE last
        /\ history' = IF Worth(sys.detections)
                      THEN Passed("tracked",
                               Append(history.pass.tracked, sys.detections))
                      ELSE history
        /\ sys' = Goto("sleep")
        /\ UNCHANGED <<variant, gpio, initialized, servo_pwm, pwmFault,
                       pwmStops, gpioCleanups, dets, phase, pc, lockHolder,
                       frame, detectorVars, gpsVars, cameraVars,
                       running, detection_count, logged, aside>>

\* line 81
Sleep ==
    /\ At("sleep")
    /\ sys' = Goto("loop")
    /\ UNCHANGED <<positionerVars, detectorVars, gpsVars, cameraVars,
                   running, detection_count, logged, history, aside>>

\* a statement of lines 70-79 raises an Exception: lines 86-87
LoopError ==
    /\ sys.pc \in {"capture", "analyze", "process", "track"}
    /\ sys' = Goto("error_sleep")
    /\ history' = [history EXCEPT !.erred = TRUE]
    /\ UNCHANGED <<positionerVars, detectorVars, gpsVars, cameraVars,
                   running, detection_count, logged, aside>>

\* ErrorSleep that leaves the loop
ErrorLeave == Enter("loop_end")

\* line 88 and back to line 68
ErrorResume == Goto("loop")

ErrorSleep ==
    /\ At("error_sleep")
    /\ sys' = ErrorResume
    /\ UNCHANGED <<positionerVars, detectorVars, gpsVars, cameraVars,
                   running, detection_count, logged, history, aside>>

\* Caught with the interrupt taken for an error of the pass
CaughtAsError(place) ==
    IF place \in {"capture", "analyze", "process", "track", "sleep"}
    THEN Goto("error_sleep") ELSE Enter("finally")

\* lines 83-85 and 163-168
Caught(place) ==
    IF place \in {"capture", "analyze", "process", "track", "sleep"}
    THEN Enter("loop_end") ELSE Enter("finally")

\* KeyboardInterrupt: inside the try of the loop it is caught (lines 83-85)
\* and line 90 follows; anywhere else it leaves start_system() and main()'s
\* finally calls shutdown()
Interrupt ==
    /\ ~history.interrupted
    /\ sys.pc \in {"start", "get_location", "camera_start", "servos",
                   "load_model", "loop", "capture", "analyze", "process",
                   "track", "sleep", "error_sleep"}
    /\ sys' = Caught(sys.pc)
    /\ history' = [history EXCEPT !.interrupted = TRUE]
    /\ UNCHANGED <<positionerVars, detectorVars, gpsVars, cameraVars,
                   running, detection_count, logged, aside>>

\* ----------------------------------------------------------- shutdown()
\* the shutdown() call in progress: the cleanup steps it has made so far
Cleaned(step) ==
    [history EXCEPT !.shutdowns[Len(history.shutdowns)].done =
                        Append(@, step)]

Ended(how) ==
    [history EXCEPT !.shutdowns[Len(history.shutdowns)].ended = how]

\* the stop() calls that have raised so far
Raised(shutdowns) ==
    Cardinality({k \in 1..Len(shutdowns) : shutdowns[k].ended = "raised"})

\* where an exception that leaves shutdown() is caught: one from line 90 by
\* the except of start_system(), whose line 63 calls shutdown(); one from
\* line 63 by main(), whose finally calls shutdown(); one from line 168 by
\* nobody
Thrown ==
    CASE sys.ret = "loop_end" -> Enter("except")
      [] sys.ret = "except" -> Enter("finally")
      [] OTHER -> Goto("crashed")

\* lines 137-139
ShutdownBegin ==
    /\ At("shutdown")
    /\ running' = FALSE
    /\ sys' = Goto("camera_stop")
    /\ history' = [history EXCEPT !.shutdowns =
           Append(@, [from |-> sys.ret, done |-> <<>>, ended |-> "no"])]
    /\ UNCHANGED <<positionerVars, detectorVars, gpsVars, cameraVars,
                   detection_count, logged, aside>>

\* lines 141-142, camera.stop(): the flag is cleared, join() returns, the
\* device is released; release() may raise, and nothing of stop() or of
\* shutdown() catches it
ShutdownCamera ==
    \E raises \in BOOLEAN :
        /\ At("camera_stop")
        /\ raises => CapPresent(cap) /\ Raised(history.shutdowns) < MaxFaults
        /\ cam_running' = FALSE
        /\ capReleases' = IF CapPresent(cap)
                          THEN capReleases + 1 ELSE capReleases
        /\ cap' = IF CapPresent(cap) /\ ~raises THEN "None" ELSE cap
        /\ sys' = IF raises THEN Thrown ELSE Goto("gps_stop")
        /\ history' = IF raises THEN Ended("raised") ELSE Cleaned("camera")
        /\ UNCHANGED <<latest_frame, frame_lock, capture_thread, camCall,
                       cam_in, positionerVars, detectorVars, gpsVars,
                       running, detection_count, logged, aside>>

\* lines 144-145, gps.stop(): the flag is cleared, join() returns, the port
\* is closed; close() may raise, and nothing of stop() or of shutdown()
\* catches it
ShutdownGps ==
    \E raises \in BOOLEAN :
        /\ At("gps_stop")
        /\ raises => /\ ConnOpen(serial_conn)
                     /\ Raised(history.shutdowns) < MaxFaults
        /\ gps_running' = FALSE
        /\ serialCloses' = IF ConnOpen(serial_conn)
                           THEN serialCloses + 1 ELSE serialCloses
        /\ serial_conn' = IF ConnOpen(serial_conn) /\ ~raises
                          THEN "None" ELSE serial_conn
        /\ sys' = IF raises THEN Thrown ELSE Goto("servos_shutdown")
        /\ history' = IF raises THEN Ended("raised") ELSE Cleaned("gps")
        /\ UNCHANGED <<current_location, serial_in, gps_lock, gps_thread,
                       gpsCall, committed, positionerVars, detectorVars,
                       cameraVars, running, detection_count, logged, aside>>

\* lines 147-148, servos.shutdown(): it catches what its steps raise
ShutdownServos ==
    LET r == HomeAllServos(Here, positions)
    IN  /\ At("servos_shutdown")
        /\ positions' = r.pos
        /\ pwmStops' = StopAll(pwmStops, servo_pwm)
        /\ gpioCleanups' = IF gpio THEN gpioCleanups + 1 ELSE gpioCleanups
        /\ last' = Did("shutdown", "None", NoCall, NoCall, r.moves)
        /\ initialized' = FALSE
        /\ sys' = Goto("return")
        /\ history' = Cleaned("servos")
        /\ UNCHANGED <<variant, gpio, servo_pwm, pwmFault, dets, phase, pc,
                       lockHolder, frame, detectorVars, gpsVars, cameraVars,
                       running, detection_count, logged, aside>>

\* lines 150-151 and the return: to main_detection_loop() or to the except
\* of start_system(), both of which return to main(), whose finally calls
\* shutdown(); or to the finally of main(), which returns
ShutdownReturn ==
    /\ At("return")
    /\ sys' = IF sys.ret = "finally" THEN Goto("exited") ELSE Enter("finally")
    /\ history' = Ended("returned")
    /\ UNCHANGED <<positionerVars, detectorVars, gpsVars, cameraVars,
                   running, detection_count, logged, aside>>

\* ------------------------------------------------------ one run of main()
InitSystem ==
    /\ variant = "real"
    /\ gpio \in BOOLEAN
    /\ pwmFault = FALSE
    /\ initialized = FALSE
    /\ positions = home_positions
    /\ servo_pwm = {}
    /\ pwmStops = [a \in Axes |-> 0]
    /\ gpioCleanups = 0
    /\ last = NoLast
    /\ dets = <<>>
    /\ phase = "unused"
    /\ pc = Idle
    /\ lockHolder = 0
    /\ frame = NoFrames
    /\ DetectorCreated
    /\ contours \in SystemFrames
    /\ GpsCreated
    /\ serial_in = <<>>
    /\ CameraCreated
    /\ cam_in = 1
    /\ SystemCreated

\* the steps of Track and of ShutdownServos as the main thread sees them:
\* both are possible whenever the thread is at their place
TrackDone == At("track") /\ sys' = Goto("sleep")

ServosDone == At("servos_shutdown") /\ sys' = Goto("return")

\* a step of the main thread that no exception and no interrupt cuts short
MainStep ==
    \/ StartGps
    \/ StartLocation
    \/ StartCamera
    \/ StartServos
    \/ StartModel
    \/ LoopTest
    \/ CaptureFrame
    \/ Analyze
    \/ ProcessDetection
    \/ TrackDone
    \/ Sleep
    \/ ErrorSleep
    \/ ShutdownBegin
    \/ ShutdownCamera
    \/ ShutdownGps
    \/ ServosDone
    \/ ShutdownReturn

CaptureStep == CaptureRead \/ CaptureStore \/ CaptureLoopExit

NextSystem ==
    \/ StartGps
    \/ StartLocation
    \/ StartCamera
    \/ StartServos
    \/ StartModel
    \/ LoopTest
    \/ CaptureFrame
    \/ Analyze
    \/ ProcessDetection
    \/ Track
    \/ Sleep
    \/ LoopError
    \/ ErrorSleep
    \/ Interrupt
    \/ ShutdownBegin
    \/ ShutdownCamera
    \/ ShutdownGps
    \/ ShutdownServos
    \/ ShutdownReturn
    \/ CaptureRead
    \/ CaptureStore
    \/ CaptureLoopExit
    \/ GpsLoopExit

SpecSystem == InitSystem /\ [][NextSystem]_vars

\* Every thread gets the processor again and again, and no lock is held
\* across steps.  No fairness is asked of LoopError and Interrupt: they may
\* never happen.
SpecSystemLive ==
    /\ InitSystem
    /\ [][NextSystem]_vars
    /\ WF_sys(MainStep)
    /\ WF_vars(CaptureStep)
    /\ WF_vars(GpsLoopExit)

\* --------------------------------------------------------------- C22
FailedSteps ==
    {history.started[k].step : k \in {j \in 1..Len(history.started) :
                                         ~history.started[j].ok}}

\* C22: once a startup step has failed - the port of the position source or
\* the capture device does not open, initialize() of the actuators fails, or
\* load_model() raises - the running flag is never set and no pass of the
\* detection loop is begun.
C22_FailedStartupNeverRuns ==
    FailedSteps # {} => ~running /\ history.iterations = 0

\* --------------------------------------------------------------- C23
\* the state of the coordinator, told from the place of the main thread;
\* main() has called start_system() when the run begins
StartPlaces == {"start", "get_location", "camera_start", "servos",
                "load_model"}

PassPlaces == {"capture", "analyze", "process", "track", "sleep"}

LoopPlaces == PassPlaces \cup {"loop", "error_sleep"}

StopPlaces == {"shutdown", "camera_stop", "gps_stop", "servos_shutdown",
               "return"}

State ==
    CASE sys.pc \in StartPlaces -> "Starting"
      [] sys.pc \in LoopPlaces -> "Running"
      [] sys.pc \in StopPlaces -> "ShuttingDown"
      [] OTHER -> "Stopped"

Edges == {<<"Starting", "Running">>, <<"Starting", "ShuttingDown">>,
          <<"Running", "ShuttingDown">>, <<"ShuttingDown", "Stopped">>}

StepsMade == [k \in 1..Len(history.started) |-> history.started[k].step]

\* the flag is set only with all startup steps made, in their order, and
\* load_model() returned; it is set all through Running
FlagInOrder ==
    /\ running => /\ StepsMade = <<"gps", "camera", "servos", "model">>
                  /\ "model" \notin FailedSteps
                  /\ State = "Running" \/ sys.pc = "shutdown"
    /\ State = "Running" => running

\* C23: the coordinator goes from Starting to Running or, on a failure,
\* to ShuttingDown, from Running to ShuttingDown, from ShuttingDown to
\* Stopped, and makes no other change of state; the running flag is set
\* only after gps.start(), camera.start() and load_model() have been made in
\* that order; a pass of the loop begins only in Running with the flag set
\* and never after a shutdown() has been entered.
C23_StateMachine ==
    /\ []FlagInOrder
    /\ [][/\ State' # State => <<State, State'>> \in Edges
          /\ history'.iterations # history.iterations =>
                 /\ State = "Running" /\ State' = "Running"
                 /\ running /\ running'
                 /\ history.shutdowns = <<>>]_vars

\* a run that has gone through every state: two passes of the loop, an
\* interrupt, shutdown() from line 90 and again from main()
C23_Witness ==
    /\ sys.pc = "exited"
    /\ history.iterations = 2
    /\ Len(history.shutdowns) = 2
    /\ history.shutdowns[1].from = "loop_end"

\* ----------------------------------- process_detection on a given list
\* the fix after one GGA sentence
Fixed == [NoFix EXCEPT !.latitude = Some(1), !.longitude = Some(1),
                       !.altitude = Some(3), !.satellites = 5,
                       !.fix_quality = 1]

ProcessInputs == [type : Kinds, confidence : Confidences,
                  coordinates : {<<2, 2>>}]

ProcessLists ==
    UNION {ListsOfLen(ProcessInputs, n) : n \in 1..MaxDetections}

\* the loop is at line 75 with a frame and a list of detections in hand
InitProcess ==
    /\ PositionerCreated
    /\ DetectorCreated
    /\ contours = <<>>
    /\ current_location \in {NoFix, Fixed}
    /\ gps_running = FALSE
    /\ serial_conn = "None"
    /\ gps_lock = "free"
    /\ gps_thread = NoThread
    /\ gpsCall = NoCallGps
    /\ serialCloses = 0
    /\ committed = <<[kind |-> "none", fix |-> NoFix]>>
    /\ serial_in = <<>>
    /\ CameraCreated
    /\ cam_in = 0
    /\ running = TRUE
    /\ detection_count = [k \in Kinds |-> 0]
    /\ \E detections \in ProcessLists :
           sys = [NoSys EXCEPT !.pc = "process", !.frame = Some(1),
                               !.detections = detections, !.i = 1]
    /\ logged = <<>>
    /\ history = [NoHistory EXCEPT !.iterations = 1]
    /\ status = NoStatus
    /\ fleet = NoFleet

SpecProcess == InitProcess /\ [][ProcessDetection]_vars

\* --------------------------------------------------------------- C24
IsEvent(call) == call.call = "log_detection"

Events == SelectSeq(logged, IsEvent)

EventsOf(kind) == Cardinality({k \in 1..Len(Events) : Events[k].type = kind})

Total(count) == count["meteor"] + count["asteroid"] + count["non_meteor"]

\* a step that processes one detection
Processing == sys.pc = "process" /\ sys'.i = sys.i + 1

\* C24: process_detection adds one to the counter of the detection's kind
\* and to no other, and hands the data logger one event of that kind and
\* confidence with the fix stored at that time; so each counter is the
\* number of events of its kind, and the counters add up to the number of
\* events.
C24_CountersMatchEvents ==
    /\ [](/\ \A kind \in Kinds : detection_count[kind] = EventsOf(kind)
          /\ Total(detection_count) = Len(Events))
    /\ [][Processing =>
            LET detection == sys.detections[sys.i]
            IN  /\ detection_count' =
                       [detection_count EXCEPT ![detection.type] = @ + 1]
                /\ Len(Events') = Len(Events) + 1
                /\ Events'[Len(Events')].type = detection.type
                /\ Events'[Len(Events')].confidence = detection.confidence
                /\ Events'[Len(Events')].gps_location = current_location]_vars

\* two detections of different kinds have been processed while the source
\* had a fix
C24_Witness ==
    /\ sys.pc = "track"
    /\ Len(Events) = 2
    /\ Events[1].type = "meteor"
    /\ Events[2].type = "non_meteor"
    /\ Events[2].gps_location = Fixed
    /\ detection_count = [k \in Kinds |-> IF k = "asteroid" THEN 0 ELSE 1]

\* --------------------------------------------------------------- C25
\* the calls a step has added to those made on the data logger
Added == SubSeq(logged', Len(logged) + 1, Len(logged'))

Persisted(call) == call.call = "save_frame"

\* C25: processing a detection asks the data logger to save the frame
\* exactly when the confidence is above 0.8 and the kind is meteor or
\* asteroid; the request comes right after the event of that detection has
\* been handed over, and there is none for a confidence of 0.8 or less or
\* for a non-meteor.
C25_SaveIffConfidentMeteorOrAsteroid ==
    /\ [](\A k \in 1..Len(logged) : Persisted(logged[k]) =>
             /\ logged[k].confidence > 80
             /\ logged[k].type \in {"meteor", "asteroid"}
             /\ k > 1
             /\ logged[k - 1] = [logged[k] EXCEPT !.call = "log_detection"])
    /\ [][Processing =>
            LET detection == sys.detections[sys.i]
                wanted == /\ detection.confidence > 80
                          /\ detection.type # "non_meteor"
            IN  /\ Len(Added) = IF wanted THEN 2 ELSE 1
                /\ IsEvent(Added[1])
                /\ wanted => /\ Persisted(Added[2])
                             /\ Added[2].type = detection.type
                             /\ Added[2].confidence = detection.confidence
                             /\ Added[2].frame_id = sys.frame]_vars

\* a meteor at 0.85 has been processed and its frame saved, then a meteor
\* at 0.80, with no frame saved
C25_Witness ==
    /\ sys.pc = "track"
    /\ Len(logged) = 3
    /\ Persisted(logged[2])
    /\ logged[2].confidence = 85
    /\ IsEvent(logged[3])
    /\ logged[3].type = "meteor"
    /\ logged[3].confidence = 80

\* --------------------------------------------------------------- C26
ThisPass == history.pass

\* C26: a pass of the loop that gets no frame makes no detection pass,
\* changes no counter, calls neither the data logger nor track_objects; a
\* pass that gets a frame and runs to its sleep has made one detection pass,
\* has processed every detection and has called track_objects once with
\* the whole list if the list is not empty and not at all if it is empty;
\* the call comes after the last detection has been processed.
C26_PassStructure ==
    /\ [](/\ sys.pc \in {"analyze", "process", "track"} => ThisPass.fetched
          /\ ~ThisPass.fetched =>
                 /\ ThisPass.analyzed = 0
                 /\ ThisPass.processed = 0
                 /\ ThisPass.tracked = <<>>
          /\ Len(ThisPass.tracked) <= 1
          /\ sys.pc = "sleep" /\ ThisPass.fetched =>
                 /\ ThisPass.analyzed = 1
                 /\ ThisPass.processed = Len(sys.detections)
                 /\ ThisPass.tracked = IF sys.detections # <<>>
                                       THEN <<sys.detections>> ELSE <<>>)
    /\ [][/\ (detection_count' # detection_count \/ logged' # logged) =>
                 ThisPass.fetched /\ sys.pc = "process"
          /\ Len(ThisPass'.tracked) > Len(ThisPass.tracked) =>
                 /\ ThisPass.fetched
                 /\ sys.detections # <<>>
                 /\ ThisPass.processed = Len(sys.detections)
                 /\ ThisPass'.tracked = <<sys.detections>>]_vars

\* the second pass has processed two detections and handed both to
\* track_objects, which has turned the camera
C26_Witness ==
    /\ sys.pc = "sleep"
    /\ history.iterations = 2
    /\ ThisPass.fetched
    /\ ThisPass.processed = 2
    /\ ThisPass.tracked = <<sys.detections>>
    /\ positions # home_positions

\* --------------------------------------------------------------- C27
Interrupted == history'.interrupted /\ ~history.interrupted

\* C27: an exception raised inside a pass of the loop does not end the
\* loop: from the sleep of the except branch the thread goes back to the
\* test of the flag and nowhere else, unless it is interrupted; and the
\* next pass begins unless the flag is cleared (for a pass below
\* MaxIterations, the last one a run makes here).
C27_ErrorDoesNotEndLoop ==
    /\ [][sys.pc = "error_sleep" /\ sys'.pc # "error_sleep" =>
              \/ sys'.pc = "loop" /\ running'
              \/ Interrupted]_vars
    /\ (sys.pc = "error_sleep" /\ history.iterations < MaxIterations)
           ~> (sys.pc = "capture" \/ ~running)

\* the first pass raised, the second pass has begun
C27_Witness ==
    /\ sys.pc = "capture"
    /\ running
    /\ history.erred
    /\ history.iterations = 2

\* --------------------------------------------------------------- C28
Cancelled == history.interrupted \/ history.shutdowns # <<>>

CaptureAlive == capture_thread.pc \in {"loop", "store"}

ReaderAlive == gps_thread.pc \notin {"unset", "finished"}

\* C28: after an interrupt, and after the running flag has been cleared, no
\* pass of the detection loop begins and main() comes to its end; the capture
\* loop and the reading loop end only at the test of their own flag, with
\* the flag cleared, and they do end once stop() has cleared it.  A run
\* that is cancelled stays cancelled, a main() that is over stays over and
\* a flag that is cleared stays cleared, so that []<>(P => Q) says that P
\* leads to Q.
C28_CancellationStops ==
    /\ [][history'.iterations # history.iterations =>
              ~Cancelled /\ running]_vars
    /\ [][/\ capture_thread'.pc = "finished" /\ CaptureAlive =>
                 capture_thread.pc = "loop" /\ ~cam_running
          /\ gps_thread'.pc = "finished" /\ ReaderAlive =>
                 gps_thread.pc = "loop" /\ ~gps_running]_vars
    /\ [][/\ Cancelled => Cancelled'
          /\ State = "Stopped" => State' = "Stopped"
          /\ CaptureAlive /\ ~cam_running => ~cam_running'
          /\ ReaderAlive /\ ~gps_running => ~gps_running']_vars
    /\ []<>(Cancelled => State = "Stopped")
    /\ []<>(CaptureAlive => cam_running)
    /\ []<>(ReaderAlive => gps_running)

\* the first pass was interrupted: no second pass, main() has returned and
\* both acquisition threads have ended
C28_Witness ==
    /\ history.interrupted
    /\ history.iterations = 1
    /\ Len(history.shutdowns) = 2
    /\ history.shutdowns[1].from = "loop_end"
    /\ sys.pc = "exited"
    /\ capture_thread.pc = "finished"
    /\ gps_thread.pc = "finished"

\* --------------------------------------------------------------- C29
AllCleanup == <<"camera", "gps", "servos">>

Over(k) == history.shutdowns[k].ended # "no"

\* C29: every call of shutdown() that is over, returned or left by an
\* exception, has stopped the camera, stopped the GPS module and shut the
\* servos down, in this order; once it is over the running flag is cleared,
\* and once main() is over every axis is at its home angle.
C29_ShutdownCleansAll ==
    /\ \A k \in 1..Len(history.shutdowns) :
           Over(k) => /\ history.shutdowns[k].done = AllCleanup
                      /\ ~running
    /\ State = "Stopped" => positions = home_positions

\* the same of the calls that returned: this part holds
ReturnedShutdownCleansAll ==
    /\ \A k \in 1..Len(history.shutdowns) :
           history.shutdowns[k].ended = "returned" =>
               /\ history.shutdowns[k].done = AllCleanup
               /\ ~running
    /\ sys.pc = "exited" => positions = home_positions

\* --------------------------------------------------------------- C30
ReleasedOnce == capReleases <= 1 /\ serialCloses <= 1

ServosReleasedOnce ==
    /\ \A a \in Axes : pwmStops[a] <= 1
    /\ gpioCleanups <= 1

NoShutdownRaised ==
    \A k \in 1..Len(history.shutdowns) : history.shutdowns[k].ended # "raised"

\* C30: over one run of main(), in which shutdown() is called more than
\* once, the capture device is released at most once, the serial port is
\* closed at most once, the PWM of each axis is stopped at most once,
\* GPIO.cleanup() is called at most once, and no call of shutdown() is left
\* by an exception.
C30_ShutdownIdempotent ==
    /\ ReleasedOnce
    /\ ServosReleasedOnce
    /\ NoShutdownRaised

\* ===================================================== the status query
\* the dict itself is put into the new dict: line 129 of main.py
Reference(d) == [alias |-> TRUE, val |-> d]

\* what the holder of a part of the status reads in it: the live object
\* where the part is that object
Seen(part, live) == IF part.alias THEN live ELSE part.val

\* CameraController.settings, of which the model keeps two keys
Settings == [exposure |-> 0 - 6, gain |-> 50]

\* GPSController.get_status: scalars read from a copy of the stored fix
GpsStatus ==
    LET location == DictCopy(current_location).val
    IN  [running |-> gps_running, connected |-> ConnOpen(serial_conn),
         has_fix |-> HasFix(DictCopy(current_location).val),
         satellites |-> location.satellites,
         fix_quality |-> location.fix_quality,
         last_update |-> location.timestamp]

\* CameraController.get_status
CameraStatus ==
    [running |-> cam_running, has_frame |-> latest_frame # None,
     settings |-> DictCopy(Settings)]

\* ServoController.get_status, with get_positions
ServoStatus ==
    [initialized |-> initialized, gpio_available |-> gpio,
     current_positions |-> DictCopy(positions), limits |-> DictCopy(limits)]

\* get_system_status(), called from another thread between two steps of the
\* loop; get_location and get_positions take their locks
GetSystemStatus ==
    /\ ~status.taken
    /\ GpsLockFree(gps_lock)
    /\ LockAvailable(lockHolder)
    /\ status' = [taken |-> TRUE, mutated |-> "none", running |-> running,
                  detection_count |-> Reference(detection_count),
                  gps_status |-> GpsStatus,
                  camera_status |-> CameraStatus,
                  servo_status |-> ServoStatus]
    /\ UNCHANGED <<positionerVars, detectorVars, gpsVars, cameraVars,
                   running, detection_count, sys, logged, history, fleet>>

StatusParts == {"detection_count", "current_positions", "limits",
                "settings", "gps_status"}

\* a count, an angle, a range, a gain and a number of satellites that the
\* system never stores: one above the upper limit of an axis
Scrawl == limits["dish_azimuth"][2] + 1

\* the status after its holder has assigned to a key of one of its dicts
Scrawled(part) ==
    CASE part = "detection_count" ->
             [status EXCEPT !.mutated = part,
                            !.detection_count.val["meteor"] = Scrawl]
      [] part = "current_positions" ->
             [status EXCEPT !.mutated = part,
                 !.servo_status.current_positions.val["camera_pan"] = Scrawl]
      [] part = "limits" ->
             [status EXCEPT !.mutated = part,
                 !.servo_status.limits.val["camera_pan"] = <<Scrawl, Scrawl>>]
      [] part = "settings" ->
             [status EXCEPT !.mutated = part,
                            !.camera_status.settings.val.gain = Scrawl]
      [] OTHER ->
             [status EXCEPT !.mutated = part,
                            !.gps_status.satellites = Scrawl]

\* the holder of the status assigns to a key of one of the dicts in it; the
\* assignment goes to the live dict where the status holds that dict
MutateStatus ==
    \E part \in StatusParts :
        /\ status.taken
        /\ status.mutated = "none"
        /\ status' = Scrawled(part)
        /\ detection_count' =
               IF part = "detection_count" /\ status.detection_count.alias
               THEN [detection_count EXCEPT !["meteor"] = Scrawl]
               ELSE detection_count
        /\ positions' =
               IF /\ part = "current_positions"
                  /\ status.servo_status.current_positions.alias
               THEN [positions EXCEPT !["camera_pan"] = Scrawl]
               ELSE positions
        /\ UNCHANGED <<variant, gpio, initialized, servo_pwm, pwmFault,
                       pwmStops, gpioCleanups, last, dets, phase, pc,
                       lockHolder, frame, detectorVars, gpsVars, cameraVars,
                       running, sys, logged, history, fleet>>

\* the loop is at line 75 with a frame and a list of detections in hand, on
\* a board whose servos have been initialized
InitStatus ==
    /\ variant = "real"
    /\ gpio = TRUE
    /\ pwmFault = FALSE
    /\ initialized = TRUE
    /\ positions = home_positions
    /\ servo_pwm = Axes
    /\ pwmStops = [a \in Axes |-> 0]
    /\ gpioCleanups = 0
    /\ last = NoLast
    /\ dets = <<>>
    /\ phase = "unused"
    /\ pc = Idle
    /\ lockHolder = 0
    /\ frame = NoFrames
    /\ DetectorCreated
    /\ contours = <<>>
    /\ GpsCreated
    /\ serial_in = <<>>
    /\ CameraCreated
    /\ cam_in = 0
    /\ running = TRUE
    /\ detection_count = [k \in Kinds |-> 0]
    /\ \E detections \in ProcessLists :
           sys = [NoSys EXCEPT !.pc = "process", !.frame = Some(1),
                               !.detections = detections, !.i = 1]
    /\ logged = <<>>
    /\ history = [NoHistory EXCEPT !.iterations = 1]
    /\ status = NoStatus
    /\ fleet = NoFleet

NextStatus ==
    \/ ProcessDetection
    \/ Track
    \/ GetSystemStatus
    \/ MutateStatus

SpecStatus == InitStatus /\ [][NextStatus]_vars

\* --------------------------------------------------------------- C31
\* what the holder of the status reads in it
View ==
    [running |-> status.running,
     detection_count |-> Seen(status.detection_count, detection_count),
     gps_status |-> status.gps_status,
     has_frame |-> status.camera_status.has_frame,
     settings |-> Seen(status.camera_status.settings, Settings),
     current_positions |->
         Seen(status.servo_status.current_positions, positions),
     limits |-> Seen(status.servo_status.limits, limits)]

Live == <<running, detection_count, positions, current_location,
          latest_frame, initialized>>

\* the dicts of the status whose live counterpart the model does not keep
\* as a variable are copies
ConstantsCopied ==
    status.taken => /\ ~status.camera_status.settings.alias
                    /\ ~status.servo_status.limits.alias

\* C31: an assignment to a key of any dict of a returned status changes
\* nothing of the coordinator and of the components, and a later step of
\* the loop changes no value read in a status returned before it.
C31_StatusIsCopy ==
    /\ []ConstantsCopied
    /\ [][/\ (status.taken /\ status'.mutated # status.mutated) =>
                 UNCHANGED Live
          /\ (status.taken /\ status' = status) => View' = View]_vars

\* the same with the counters left out of both sides: this part holds
LiveButCounters == <<running, positions, current_location, latest_frame,
                     initialized>>

StatusIsCopyButCounters ==
    /\ []ConstantsCopied
    /\ [][/\ (status.taken /\ status'.mutated # status.mutated) =>
                 UNCHANGED LiveButCounters
          /\ (status.taken /\ status' = status) =>
                 [View EXCEPT !.detection_count = 0]'
                     = [View EXCEPT !.detection_count = 0]]_vars

\* --------------------------------------------------------------- C32
\* the dict as log_detection was handed it, which is as it was built
AsHanded(call) ==
    [type |-> call.type, confidence |-> call.confidence,
     coordinates |-> call.coordinates, gps_location |-> call.gps_location,
     frame_id |-> call.frame_id, image_path |-> None]

\* C32: when process_detection() is over, the dict it built for the
\* detection is as it was built: neither log_detection nor save_frame has
\* changed it.
C32_EventImmutable ==
    sys.event # None => sys.event[1] = AsHanded(Events[Len(Events)])

\* the same of the keys the dict was built with: this part holds
EventKeysKept ==
    sys.event # None =>
        [sys.event[1] EXCEPT !.image_path = None]
            = AsHanded(Events[Len(Events)])

\* ===================================== the variants of the positioner
\* ServoController on a board with RPi.GPIO and a PWM driver that works,
\* ServoController where the import of RPi.GPIO failed, and
\* MockServoController
VariantCtx(v, unit) ==
    Ctx(IF v = "mock" THEN "mock" ELSE "real", v = "gpio", unit.initialized,
        FALSE)

\* initialize(): lines 43-69 and 353-356
Initialized(v, unit) ==
    [initialized |-> TRUE,
     pos |-> IF v = "gpio"
             THEN InitLoop(VariantCtx(v, unit), unit.pos, Len(AxisOrder), 1)
             ELSE unit.pos,
     res |-> "True"]

\* move_servo(name, angle, smooth)
Moved(v, unit, name, angle, smooth) ==
    LET r == MoveServo(VariantCtx(v, unit), [pos |-> unit.pos, moves |-> <<>>],
                 name, angle, smooth)
    IN  [initialized |-> unit.initialized, pos |-> r.pos, res |-> r.res]

\* track_objects(detections)
Followed(v, unit, detections) ==
    [initialized |-> unit.initialized,
     pos |-> TrackObjects(VariantCtx(v, unit), unit.pos, detections).pos,
     res |-> "None"]

\* home_all_servos()
Homed(v, unit) ==
    LET r == HomeAllServos(VariantCtx(v, unit), unit.pos)
    IN  [initialized |-> unit.initialized, pos |-> r.pos, res |-> r.res]

\* shutdown(): lines 307-330 and 363-364
Stopped(v, unit) ==
    [initialized |-> FALSE,
     pos |-> IF v = "mock"
             THEN unit.pos
             ELSE HomeAllServos(VariantCtx(v, unit), unit.pos).pos,
     res |-> "None"]

FleetUnchanged ==
    UNCHANGED <<positionerVars, detectorVars, gpsVars, cameraVars, running,
                detection_count, sys, logged, history, status>>

FleetInitialize ==
    /\ fleet' = [v \in Variants |-> Initialized(v, fleet[v])]
    /\ FleetUnchanged

FleetMove ==
    \E name \in AxisNames, angle \in MoveAngles, smooth \in BOOLEAN :
        /\ fleet' = [v \in Variants |->
                        Moved(v, fleet[v], name, angle, smooth)]
        /\ FleetUnchanged

FleetTrack ==
    \E detections \in ApiDetLists :
        /\ fleet' = [v \in Variants |-> Followed(v, fleet[v], detections)]
        /\ FleetUnchanged

FleetHome ==
    /\ fleet' = [v \in Variants |-> Homed(v, fleet[v])]
    /\ FleetUnchanged

FleetShutdown ==
    /\ fleet' = [v \in Variants |-> Stopped(v, fleet[v])]
    /\ FleetUnchanged

InitFleet ==
    /\ PositionerCreated
    /\ OthersCreated

NextFleet ==
    \/ FleetInitialize
    \/ FleetMove
    \/ FleetTrack
    \/ FleetHome
    \/ FleetShutdown

SpecFleet == InitFleet /\ [][NextFleet]_vars

\* --------------------------------------------------------------- C33
\* C33: after every sequence of initialize, move, track, home and shutdown
\* calls given to all three variants, the last call has returned the same
\* on each of them and each holds the same stored angles.
C33_VariantsAgree ==
    \A v, w \in Variants :
        /\ fleet[v].res = fleet[w].res
        /\ fleet[v].pos = fleet[w].pos

\* what does hold: neither simulated variant ever stores an angle, and
\* the two ServoController variants return the same
SimulatedStoreNothing ==
    /\ fleet["no_gpio"].pos = home_positions
    /\ fleet["mock"].pos = home_positions
    /\ fleet["no_gpio"].res = fleet["gpio"].res

\* ========================================= one move, write by write
\* One thread is inside move_servo on a ServoController, about to take the
\* lock, with an axis, a target and the choice of a smooth or a direct
\* move; current_angle holds the stored angle of the axis at that moment.
SmoothContexts == {c \in TrackContexts : c.variant = "real"}

InitSmooth ==
    /\ \E c \in SmoothContexts :
        /\ variant = c.variant
        /\ gpio = c.gpio
        /\ initialized = c.initialized
        /\ pwmFault = c.fault
    /\ positions \in StartPositions
    /\ servo_pwm = IF gpio /\ initialized THEN Axes ELSE {}
    /\ pwmStops = [a \in Axes |-> 0]
    /\ gpioCleanups = 0
    /\ last = NoLast
    /\ dets = <<>>
    /\ phase = "move"
    /\ \E a \in Axes, angle \in MoveAngles, smooth \in BOOLEAN :
           frame = [NoFrames EXCEPT ![1] =
                       [NoFrame EXCEPT !.axis = a, !.target = angle,
                                       !.smooth = smooth,
                                       !.current_angle = positions[a]]]
    /\ pc = [Idle EXCEPT ![1] = "lock"]
    /\ lockHolder = 0
    /\ OthersCreated

NextSmooth ==
    \E t \in Threads :
        \/ Acquire(t)
        \/ SmoothStep(t)
        \/ FinalWrite(t)
        \/ Release(t)

SpecSmooth == InitSmooth /\ [][NextSmooth]_vars

\* --------------------------------------------------------------- C34
Mover == frame[1]

\* the stored angles when the move was called
AtCall == [positions EXCEPT ![Mover.axis] = Mover.current_angle]

Written == pc[1] = "unlock"

Between(x, a, b) == Min(a, b) <= x /\ x <= Max(a, b)

Goal == Max(limits[Mover.axis][1], Min(limits[Mover.axis][2], Mover.target))

\* C34: when the target has been written, the stored angles are those a
\* direct write of the target to the angles at the call leaves, whether the
\* move is smooth or direct; on a positioner that stores angles this is the
\* target clamped to the range of the axis.  During a smooth move the stored
\* angle of the axis lies between the angle at the call and the clamped
\* target, each write moves it toward the target or leaves it, and by
\* step_size at most.
C34_SmoothEndsAsDirect ==
    /\ [](Written =>
              /\ positions = MoveServoToPosition(Here, AtCall, Mover.axis,
                                                 Mover.target)
              /\ Operational => positions[Mover.axis] = Goal)
    /\ [](pc[1] \in {"step", "final", "unlock"} /\ Mover.smooth =>
              Between(positions[Mover.axis], Mover.current_angle, Goal))
    /\ [][pc[1] \in {"step", "final"} /\ Mover.smooth =>
              LET old == positions[Mover.axis]
                  new == positions'[Mover.axis]
              IN  /\ Abs(new - old) <= step_size
                  /\ Mover.target > Mover.current_angle => new >= old
                  /\ Mover.target < Mover.current_angle => new <= old
                  /\ \A a \in Axes \ {Mover.axis} :
                         positions'[a] = positions[a]]_vars

\* a smooth move of camera-tilt from 30 to 200 degrees has reached the upper
\* limit and goes on writing it
C34_Witness ==
    /\ Operational
    /\ pc[1] = "step"
    /\ Mover.smooth
    /\ Mover.axis = "camera_tilt"
    /\ Mover.current_angle = 30
    /\ Mover.target = 200
    /\ Mover.i = 70
    /\ positions["camera_tilt"] = 150

\* --------------------------------------------------------------- C35
RangeSteps(axis) == (limits[axis][2] - limits[axis][1]) \div step_size

\* C35: the loop of a smooth move makes no more iterations, each followed
\* by a sleep of 50 ms, than the range of the axis divided by step_size,
\* whatever the target.
C35_StepsBoundedByRange ==
    (pc[1] \in {"step", "final", "unlock"} /\ Mover.smooth) =>
        /\ Mover.steps <= RangeSteps(Mover.axis)
        /\ Mover.i <= RangeSteps(Mover.axis)

\* what does hold: the iterations are the distance from the stored angle to
\* the target as requested, not as clamped, divided by step_size
StepsFollowTarget ==
    (pc[1] \in {"step", "final", "unlock"} /\ Mover.smooth) =>
        Mover.steps = Abs(Mover.target - Mover.current_angle) \div step_size

\* --------------------------------------------------------------- C36
MoveReturned == last.op = "move_servo"

\* C36: a move_servo call that has returned True has left the stored angle
\* of its axis at the requested angle clamped to the range of the axis.
C36_SuccessMeansStored ==
    (MoveReturned /\ last.res = "True") =>
        positions[last.moves[1].axis]
            = Clamp(last.moves[1].axis, last.moves[1].angle)

\* what does hold: on an operational ServoController a move that returns
\* True has stored the clamped angle
OperationalSuccessMeansStored ==
    (MoveReturned /\ last.res = "True" /\ Operational) =>
        positions[last.moves[1].axis]
            = Clamp(last.moves[1].axis, last.moves[1].angle)
\* ------------------------------- one pass from the frame to the axes
\* what the contours of a frame can look like: small or large, compact or
\* long, dark, dim or bright
PipelineContours == [area : {120, 800},
                     aspect_ratio : {10, 25},
                     brightness : {140, 180, 220},
                     fault : {"none"}]

PipelineFrames ==
    UNION {ListsOfLen(PipelineContours, n) : n \in 0..MaxContours}

\* the loop is at line 73 with a frame in hand; the detector has its model
\* and the threshold of its constructor, the positioner drives its axes
InitPipeline ==
    /\ variant = "real"
    /\ gpio = TRUE
    /\ pwmFault = FALSE
    /\ initialized = TRUE
    /\ positions = home_positions
    /\ servo_pwm = Axes
    /\ pwmStops = [a \in Axes |-> 0]
    /\ gpioCleanups = 0
    /\ last = NoLast
    /\ dets = <<>>
    /\ phase = "unused"
    /\ pc = Idle
    /\ lockHolder = 0
    /\ frame = NoFrames
    /\ model_loaded = TRUE
    /\ detection_threshold = 50
    /\ detLast = NoDetLast
    /\ contours \in PipelineFrames
    /\ GpsCreated
    /\ serial_in = <<>>
    /\ CameraCreated
    /\ cam_in = 0
    /\ running = TRUE
    /\ detection_count = [k \in Kinds |-> 0]
    /\ sys = [NoSys EXCEPT !.pc = "analyze", !.frame = Some(1)]
    /\ logged = <<>>
    /\ history = [NoHistory EXCEPT !.iterations = 1]
    /\ status = NoStatus
    /\ fleet = NoFleet

NextPipeline ==
    \/ Analyze
    \/ ProcessDetection
    \/ Track

SpecPipeline == InitPipeline /\ [][NextPipeline]_vars

\* --------------------------------------------------------------- C37
\* track_objects has returned in this pass
TrackReturned == At("sleep") /\ last.op = "track_objects"

NonMeteorIn(detections) ==
    \E k \in 1..Len(detections) : detections[k].type = "non_meteor"

\* C37: with the heuristic and the threshold 0.5 of the constructor, every
\* classification above 0.8 that a detection pass returns is a non-meteor
\* at 0.9, so the dish is sent somewhere only for a non-meteor at 0.9; and
\* when a pass returns a non-meteor among its classifications, the camera
\* is sent to the position of a non-meteor.
C37_OnlyNonMeteorMovesDish ==
    /\ \A k \in 1..Len(sys.detections) :
           sys.detections[k].confidence > 80 =>
               /\ sys.detections[k].type = "non_meteor"
               /\ sys.detections[k].confidence = 90
    /\ TrackReturned =>
           LET primary == Winner(sys.detections)
           IN  /\ last.dish # NoCall =>
                      primary.type = "non_meteor" /\ primary.confidence = 90
               /\ NonMeteorIn(sys.detections) =>
                      /\ primary.type = "non_meteor"
                      /\ last.cam = <<PanAngle(primary.coordinates[1]),
                                      TiltAngle(primary.coordinates[2])>>
                      /\ last.dish # NoCall

\* a pass that found a meteor at 0.8 and then a non-meteor has sent camera
\* and dish to the non-meteor
C37_Witness ==
    /\ TrackReturned
    /\ Len(sys.detections) = 2
    /\ sys.detections[1].type = "meteor"
    /\ sys.detections[1].confidence = 80
    /\ sys.detections[2].type = "non_meteor"
    /\ last.cam = <<PanAngle(sys.detections[2].coordinates[1]),
                    TiltAngle(sys.detections[2].coordinates[2])>>
    /\ last.dish # NoCall
\* --------------------------------------------------------------- C38
\* C38: with the heuristic of the detector, no classification of a
\* detection pass is a meteor or an asteroid above 0.8, so no pass of the
\* loop asks the data logger to save the frame.
C38_NeverSavesFrame ==
    /\ \A k \in 1..Len(sys.detections) :
           ~(/\ sys.detections[k].type \in {"meteor", "asteroid"}
             /\ sys.detections[k].confidence > 80)
    /\ \A k \in 1..Len(logged) : ~Persisted(logged[k])
    /\ sys.event # None => sys.event[1].image_path = None

\* a meteor at 0.8, the most the heuristic gives one, has been processed
\* and its event handed over
C38_Witness ==
    /\ At("track")
    /\ \E k \in 1..Len(logged) :
           /\ IsEvent(logged[k])
           /\ logged[k].type = "meteor"
           /\ logged[k].confidence = 80
    /\ detection_count["meteor"] > 0
\* --------------------------------------------------------------- C39
\* capture_frame() of line 70 hands a frame to the detection pass
FrameTaken == At("capture") /\ sys'.pc = "analyze"

\* C39: a frame goes through a detection pass at most once: the frame that
\* a pass of the loop takes to analyze_frame is never the frame the pass
\* before took, also when the capture loop has stored no frame in between.
C39_FrameAnalysedOnce == [][FrameTaken => sys'.frame # sys.frame]_vars

\* within one pass of the loop the frame is analysed once
PassAnalysesOnce == history.pass.analyzed <= 1
\* --------------------------------------------------------------- C40
\* the keys of the stored fix a sentence may assign
Owned(msg) ==
    CASE msg.kind = "GGA" ->
             IF msg.latitude # 0 /\ msg.longitude # 0
             THEN DOMAIN NoFix ELSE {}
      [] msg.kind = "RMC" -> {"latitude", "longitude", "timestamp"}
      [] msg.kind = "GSA" -> {"hdop"}
      [] OTHER -> {}

Changed == {key \in DOMAIN NoFix :
               current_location'[key] # current_location[key]}

\* the reader is between taking a sentence and being done with it
Applying == gps_thread.pc \in {"lock", "write", "unlock"}

\* C40: a sentence changes only the keys of the stored fix that its type
\* owns: a GGA without latitude or longitude none (a fix that was valid
\* stays valid), an RMC latitude, longitude and timestamp, a GSA the
\* horizontal dilution, and a sentence that does not parse none.
C40_UpdatesOwnFieldsOnly ==
    /\ [][Changed # {} =>
              /\ gps_thread.pc = "write"
              /\ Changed \subseteq Owned(gps_thread.msg)]_vars
    /\ []((Applying /\ Owned(gps_thread.msg) = {}) =>
              current_location = committed[Len(committed)].fix)
    /\ [](Applying => gps_thread.msg.kind \in {"GGA", "RMC", "GSA"})
    /\ [][(gps_thread.pc = "loop" /\ serial_in # <<>>
              /\ serial_in' = Tail(serial_in)
              /\ Head(serial_in).kind \notin {"GGA", "RMC", "GSA"})
             => gps_thread'.pc = "loop"]_vars

\* a GGA sentence without position has been applied after a fix: the stored
\* fix is as it was and still valid
C40_Witness ==
    /\ Len(committed) = 3
    /\ committed[2].kind = "GGA"
    /\ HasFix(committed[2].fix)
    /\ committed[3].kind = "GGA"
    /\ committed[3].fix = committed[2].fix
    /\ HasFix(current_location)
====
